---------------------------- MODULE Spec2Model ----------------------------
(***************************************************************************)
(* Decision core of Expert-in-a-Box: the hash-chained audit log            *)
(* (core/audit.py), the Worker / Auditor / Resolver pipeline               *)
(* (core/pipeline.py, adapters/llm_adapter.py, core/policy.py), the        *)
(* override-key registry with its time-boxed sessions (core/keys.py), the  *)
(* policy engine (core/policy.py), the mode switch (main.py) and the       *)
(* anti-replay check of remote bundles (core/rao.py).                      *)
(*                                                                         *)
(* Modelling conventions                                                   *)
(*  - sha256(...)[:16] is modelled collision-free: a checksum is the       *)
(*    canonical serialisation it was computed from (a sequence of          *)
(*    naturals), so two checksums are equal exactly when their inputs are. *)
(*  - None is the string "None"; a dict whose key is absent is a record    *)
(*    without that field (Get gives the default, as dict.get does).        *)
(*  - details are string-keyed JSON objects, which is what every writer    *)
(*    of the repository passes; they are opaque tokens here.               *)
(***************************************************************************)
EXTENDS Integers, Sequences, FiniteSets, TLC

\* ------------------------------------------------------------------ bounds
MaxLog == 3
MaxSessions == 2
MaxTime == 1
MaxFailures == 2
MaxFailedLoads == 1

\* --------------------------------------------------------------- variables
VARIABLES
    logFile,        \* the log file: a sequence of lines (audit.jsonl)
    lastChecksum,   \* AuditLogger._last_checksum
    eventCount,     \* AuditLogger._event_count
    clock,          \* datetime.utcnow(), a logical clock
    altered,        \* ghost: the hand edit made to the file, if any
    verifyResult,   \* what the last verify_integrity() call returned
    lock,           \* AuditLogger._lock: "free" or the thread holding it
    tpc,            \* per writer thread: its position inside log()
    tevent,         \* per writer thread: the AuditEvent it is building
    calls,          \* ghost: number of log() calls that have returned
    policy,         \* Pipeline.policy
    pstage,         \* position of Pipeline.run
    worker_output,  \* run(): worker_output
    auditor_output, \* run(): auditor_output
    decision,       \* run(): the ResolverDecision returned
    review,         \* ghost: how the Auditor backend call went
    trace,          \* ghost: backend calls and audit events, in order
    keyTable,       \* KeyRegistry._keys, in insertion order
    active_sessions,\* KeyRegistry._active_sessions
    now,            \* datetime.now(), in quarter hours
    issued,         \* ghost: the number of session ids generated so far
    kcall,          \* ghost: the last Key Registry call and what it returned
    kpc,            \* per request thread: its position inside a registry call
    klocal,         \* per request thread: the locals of its registry call
    kraised,        \* ghost: the exception a registry call raised, if any
    keyConfig,      \* the keys.json the registry is loaded from
    redaction_level,\* AuditLogger.redaction_level
    caller_details, \* _redact(details): the caller's mapping
    redacted,       \* _redact(details): the mapping it returns
    lcall,          \* ghost: the last log() call and how it ended
    qcall,          \* ghost: the last read of the log and what it returned
    pconfig,        \* Policy._config
    pviolations,    \* Policy._violations
    pcall,          \* ghost: the last Policy call and what it returned
    mcall,          \* ghost: the last switch_mode call and what it returned
    last_sequence,  \* RAOManager._last_sequence
    issuer_keys,    \* RAOManager._issuer_keys: the issuers registered
    rcall           \* ghost: the last apply_bundle call and what it returned

auditVars == <<logFile, lastChecksum, eventCount, clock, altered, verifyResult>>
writerVars == <<lock, tpc, tevent, calls>>
pipelineVars == <<policy, pstage, worker_output, auditor_output, decision,
                  review, trace>>
keyVars == <<keyTable, active_sessions, now, issued, kcall>>
keyThreadVars == <<kpc, klocal, kraised>>
configVars == <<keyConfig>>
redactVars == <<redaction_level, caller_details, redacted>>
storeVars == <<lcall>>
queryVars == <<qcall>>
policyVars == <<pconfig, pviolations, pcall>>
modeVars == <<mcall>>
raoVars == <<last_sequence, issuer_keys, rcall>>
extraVars == <<queryVars, policyVars, modeVars, raoVars>>
otherVars == <<configVars, redactVars, storeVars, extraVars>>
vars == <<auditVars, writerVars, pipelineVars, keyVars, keyThreadVars,
          otherVars>>

\* ------------------------------------------------------------ audit: data
Genesis == <<0>>

EventTypes == {"query", "mode_change"}
Sessions == {"None", "s1"}
Details == {"d1", "d2"}
DeviceId == "dev1"

\* the log() calls of the callers: main.query logs a query under its session,
\* switch_mode and the component callbacks log without one
LogCalls ==
    {[event_type |-> "query", details |-> d, session_id |-> "s1"] : d \in Details}
    \cup {[event_type |-> "mode_change", details |-> d, session_id |-> "None"] :
             d \in Details}

Atoms == <<"None", "s1", "d1", "d2", "dev1", "query", "mode_change", "forged">>

\* json.dumps of a scalar: one code per distinct value
Code(x) == CHOOSE i \in 1..Len(Atoms) : Atoms[i] = x

\* AuditEvent.to_json / dataclass field order
FieldNames == <<"timestamp", "event_type", "session_id", "device_id",
                "details", "checksum", "previous_checksum">>

ToJson(event) == <<event.timestamp, event.event_type, event.session_id,
                   event.device_id, event.details, event.checksum,
                   event.previous_checksum>>

JsonLoads(line) == [timestamp |-> line[1], event_type |-> line[2],
                    session_id |-> line[3], device_id |-> line[4],
                    details |-> line[5], checksum |-> line[6],
                    previous_checksum |-> line[7]]

\* event_dict after `del event_dict["checksum"]`
WithoutChecksum(data) == [timestamp |-> data.timestamp,
                          event_type |-> data.event_type,
                          session_id |-> data.session_id,
                          device_id |-> data.device_id,
                          details |-> data.details,
                          previous_checksum |-> data.previous_checksum]

\* a serialisation that leaves the details out (mutant of Canonical)
CanonicalWithoutDetails(event) ==
    <<Code(event.device_id), Code(event.event_type),
      Len(event.previous_checksum)>>
    \o event.previous_checksum
    \o <<Code(event.session_id), event.timestamp>>

\* json.dumps(event, sort_keys=True): keys in sorted order
Canonical(event) ==
    <<Code(event.details), Code(event.device_id), Code(event.event_type),
      Len(event.previous_checksum)>>
    \o event.previous_checksum
    \o <<Code(event.session_id), event.timestamp>>

\* _compute_checksum: sha256(json.dumps(event, sort_keys=True) + previous)
ComputeChecksum(event, previous) == Canonical(event) \o previous

\* an event that does not read the chain head (mutant of NewEvent)
NewEventFromGenesis(event_type, details, session_id, timestamp, head) ==
    [timestamp |-> timestamp, event_type |-> event_type,
     session_id |-> session_id, device_id |-> "dev1",
     details |-> details, checksum |-> <<>>,
     previous_checksum |-> <<0>>]

\* AuditEvent(...) as log() constructs it: checksum "" until computed
NewEvent(event_type, details, session_id, timestamp, head) ==
    [timestamp |-> timestamp, event_type |-> event_type,
     session_id |-> session_id, device_id |-> DeviceId,
     details |-> details, checksum |-> <<>>,
     previous_checksum |-> head]

\* event.checksum = self._compute_checksum(event_dict, self._last_checksum)
Sealed(event, head) ==
    [event EXCEPT !.checksum = ComputeChecksum(WithoutChecksum(event), head)]

\* a constructor that never reads the file (mutant of LoadLastChecksum)
LoadLastChecksumSkipped(file) == <<0>>

\* _load_last_checksum: the checksum of the last line, genesis for no line
LoadLastChecksum(file) ==
    IF Len(file) = 0 THEN Genesis ELSE JsonLoads(file[Len(file)]).checksum

\* ------------------------------------------------------- audit: _redact
\* `len(redacted[field]) > 500` and `[:500]`
TruncateAt == 500

\* len("...[truncated]")
MarkerLength == 14

RedactionLevels == {"none", "standard", "strict"}

\* sensitive_fields, and a field that is not one of them
SensitiveFields == {"query", "response", "message"}
DetailFields == SensitiveFields \cup {"tokens"}

\* A string is the first `shown` characters of the text the caller gave,
\* followed by the truncation marker or not.
Text(n) == [kind |-> "str", shown |-> n, marker |-> FALSE]

\* a value that is not a string
Number == [kind |-> "int", value |-> 5]

Lengths == {3, 500, 501, 600}

\* the values a caller gives a field
ValuesOf(field) ==
    IF field \in SensitiveFields
    THEN {Text(n) : n \in Lengths} \cup {Number}
    ELSE {Text(600), Number}

\* the details mappings of the callers
DetailsInputs ==
    {d \in UNION {[F -> UNION {ValuesOf(f) : f \in DetailFields}] :
                     F \in SUBSET DetailFields} :
        \A f \in DOMAIN d : d[f] \in ValuesOf(f)}

\* len(text)
StrLen(text) == text.shown + (IF text.marker THEN MarkerLength ELSE 0)

\* hashlib.sha256(content.encode()).hexdigest()[:16], collision-free: the
\* digest of a string is the string it was computed from
Sha256(text) == <<text.shown, IF text.marker THEN 1 ELSE 0>>

\* a cut that adds no marker (mutant of Truncate)
TruncateWithoutMarker(text) == [text EXCEPT !.shown = TruncateAt]

\* redacted[field][:500] + "...[truncated]"
Truncate(text) == [text EXCEPT !.shown = TruncateAt, !.marker = TRUE]

\* isinstance(redacted[field], str), for a sensitive field that is present
IsSensitiveText(mapping, field) ==
    field \in SensitiveFields /\ mapping[field].kind = "str"

\* the standard/strict loop: long sensitive strings are truncated
TruncateFields(mapping) ==
    [f \in DOMAIN mapping |->
        IF IsSensitiveText(mapping, f) /\ StrLen(mapping[f]) > TruncateAt
        THEN Truncate(mapping[f])
        ELSE mapping[f]]

\* the strict loop: sensitive strings are replaced by flag, hash and length
HashFields(mapping) ==
    [f \in DOMAIN mapping |->
        IF IsSensitiveText(mapping, f)
        THEN [kind |-> "redacted", redacted |-> TRUE,
              hash |-> Sha256(mapping[f]), length |-> StrLen(mapping[f])]
        ELSE mapping[f]]

\* _redact(details): the mapping returned, and the caller's mapping when
\* the call returns (level none returns the mapping itself, the other
\* levels work on details.copy())
Redact(level, mapping) ==
    [returned |-> CASE level = "none" -> mapping
                    [] level = "standard" -> TruncateFields(mapping)
                    [] level = "strict" -> HashFields(TruncateFields(mapping)),
     caller |-> mapping]

NotRedacted == [called |-> FALSE, given |-> <<>>, returned |-> <<>>]

\* ------------------------------------------------- audit: verify_integrity
Issue(line_number, kind) == [line |-> line_number, kind |-> kind]

\* Lines that log() never writes. A line is the tuple of the values it
\* holds: seven for a record, six for a record whose checksum field was
\* deleted, two for a JSON value that is not an object, one for text that
\* is not JSON.
Garbage == <<"not json">>
JsonArray == <<"json", "[]">>

\* the record without its "checksum" key
DropChecksum(line) ==
    <<line[1], line[2], line[3], line[4], line[5], line[7]>>

\* json.loads(line) raises JSONDecodeError
Undecodable(line) == Len(line) = 1

\* json.loads(line) gives a list, number, string or null: no .get
NotAnObject(line) == Len(line) = 2

\* json.loads(line) gives an object without "checksum"
LacksChecksum(line) == Len(line) = 6

\* the loop ran to the end (raised "none") or an exception left it
Looped(issues, raised) == [issues |-> issues, raised |-> raised]

RECURSIVE VerifyLoop(_, _, _, _)
VerifyLoop(file, line_number, previous_checksum, issues) ==
    IF line_number > Len(file) THEN Looped(issues, "none")
    ELSE IF Undecodable(file[line_number])
    THEN VerifyLoop(file, line_number + 1, previous_checksum,
                    Append(issues, Issue(line_number, "Invalid JSON")))
    ELSE IF NotAnObject(file[line_number])
    THEN Looped(issues, "AttributeError")
    ELSE IF LacksChecksum(file[line_number])
    THEN Looped(issues, "KeyError")
    ELSE LET data == JsonLoads(file[line_number])
             chain == IF data.previous_checksum # previous_checksum
                      THEN <<Issue(line_number, "Broken checksum chain")>>
                      ELSE <<>>
             stored_checksum == data.checksum
             computed == ComputeChecksum(WithoutChecksum(data),
                                         data.previous_checksum)
             mismatch == IF computed # stored_checksum
                         THEN <<Issue(line_number, "Checksum mismatch")>>
                         ELSE <<>>
         IN VerifyLoop(file, line_number + 1, stored_checksum,
                       issues \o chain \o mismatch)

\* verify_integrity: (valid, issues) when the loop ends; when an exception
\* leaves the loop nothing is returned and `raised` names the exception
VerifyIntegrity(file) ==
    LET loop == VerifyLoop(file, 1, Genesis, <<>>)
    IN [valid |-> loop.raised = "none" /\ Len(loop.issues) = 0,
        issues |-> loop.issues, raised |-> loop.raised]

\* --------------------------------------------------------- pipeline: data
\* dict.get(key, default)
Get(d, k, default) == IF k \in DOMAIN d THEN d[k] ELSE default

\* a dict entry that may be absent
Opt(k, values) == {<<>>} \cup {k :> v : v \in values}

\* Policy consulted by the pipeline: None, or a loaded config whose safety
\* section may or may not set the two toggles
NoPolicy == [configured |-> FALSE, safety |-> <<>>]

Policies ==
    {NoPolicy}
    \cup {[configured |-> TRUE, safety |-> a @@ b] :
            a \in Opt("require_auditor", BOOLEAN),
            b \in Opt("allow_override_on_conflict", BOOLEAN)}

\* Policy.requires_auditor: self.get("safety.require_auditor", True)
RequiresAuditor(pol) == Get(pol.safety, "require_auditor", TRUE)

\* an override that is offered unless switched off (mutant of
\* CanOverrideSafety)
CanOverrideSafetyByDefault(pol) ==
    Get(pol.safety, "allow_override_on_conflict", TRUE)

\* Policy.can_override_safety().allowed
CanOverrideSafety(pol) == Get(pol.safety, "allow_override_on_conflict", FALSE)

\* Pipeline._can_override(scope)
CanOverride(pol, scope) ==
    IF ~pol.configured THEN FALSE ELSE CanOverrideSafety(pol)

\* confidences in hundredths
DefaultConfidence == 50
SkipConfidence == 90

VerdictValues == {"approve", "revise", "reject", "escalate"}
FlagValues == {"safety", "accuracy", "scope", "confidence", "citation",
               "reading_level", "harmful"}
RiskLevels == {"low", "medium", "high", "critical"}

\* _parse_json's last resort: {"error": ..., "raw": text[:500]}
Sentinel == [error |-> "Could not parse JSON from response", raw |-> "text"]

\* JSON that parses to something other than an object
NonObject == [json_array |-> TRUE]
IsDict(result) == "json_array" \notin DOMAIN result

\* what the Worker model may answer as a JSON object
WorkerObjects ==
    {a @@ b @@ c :
        a \in Opt("response", {"w1"}),
        b \in Opt("confidence", {SkipConfidence, 95}),
        c \in Opt("caveats", {<<"c1">>})}

\* what the Auditor model may answer as a JSON object
AuditorObjects ==
    {a @@ b @@ c @@ d @@ ("reasoning" :> "r1") :
        a \in Opt("verdict", VerdictValues \cup {"bogus"}),
        b \in Opt("flags", {<<"confidence">>, <<"harmful">>,
                            <<"bogus", "safety">>}),
        c \in Opt("suggested_revision", {"", "rev1"}),
        d \in Opt("risk_level", RiskLevels \cup {"severe"})}

\* the text a backend returns: a JSON value as is, inside a ``` fence or
\* inside prose, or text that holds no JSON
Texts(objects) ==
    {[form |-> f, json |-> o] :
        f \in {"json", "fenced", "embedded"}, o \in objects \cup {NonObject}}
    \cup {[form |-> "prose", json |-> NonObject]}

\* OllamaAdapter._parse_json
ParseJson(text) ==
    CASE text.form = "json" -> text.json
      [] text.form = "fenced" -> text.json
      [] text.form = "embedded" /\ IsDict(text.json) -> text.json
      [] OTHER -> Sentinel

\* WorkerOutput(...) from the structured result (lines 304-310)
WorkerFromJson(result) ==
    [response |-> Get(result, "response", ""),
     citations |-> Get(result, "citations", <<>>),
     confidence |-> Get(result, "confidence", DefaultConfidence),
     reasoning |-> Get(result, "reasoning", ""),
     caveats |-> Get(result, "caveats", <<>>)]

\* WorkerOutput(...) of the raw-text fallback (lines 313-318)
WorkerFromText(raw) ==
    [response |-> raw, citations |-> <<>>, confidence |-> DefaultConfidence,
     reasoning |-> "Fallback: could not parse structured output",
     caveats |-> <<>>]

\* the except branch of _run_auditor
ConservativeFallback ==
    [verdict |-> "revise", flags |-> <<"confidence">>,
     reasoning |-> "Auditor error", suggested_revision |-> "None",
     risk_level |-> "medium"]

IsFlag(f) == f \in FlagValues

\* the try branch of _run_auditor (lines 368-374); Verdict(...) raises on an
\* unknown value and .get raises on a non-object, which lands in the except
AuditorFromJson(result) ==
    IF ~IsDict(result) \/ Get(result, "verdict", "approve") \notin VerdictValues
    THEN ConservativeFallback
    ELSE [verdict |-> Get(result, "verdict", "approve"),
          flags |-> SelectSeq(Get(result, "flags", <<>>), IsFlag),
          reasoning |-> Get(result, "reasoning", ""),
          suggested_revision |-> Get(result, "suggested_revision", "None"),
          risk_level |-> Get(result, "risk_level", "low")]

Contains(seq, x) == \E i \in 1..Len(seq) : seq[i] = x

RefusalText == "I'm not able to help with that request."
ConsultText == "I'm not confident I can answer that accurately. Please consult a qualified professional."
EscalateText == "This question is beyond my current capabilities. It should be referred to a human expert."

\* f"Note: {auditor.reasoning}"
Note(reasoning) ==
    CASE reasoning = "r1" -> "Note: r1"
      [] reasoning = "Auditor error" -> "Note: Auditor error"
      [] OTHER -> "Note: "

\* f"Note: This response may have limitations. {auditor.reasoning}"
LimitationsNote(reasoning) ==
    CASE reasoning = "r1" -> "Note: This response may have limitations. r1"
      [] reasoning = "Auditor error" ->
           "Note: This response may have limitations. Auditor error"
      [] OTHER -> "Note: This response may have limitations. "

\* ResolverDecision(...)
Decision(action, response, caveats, audit_notes, available, scope) ==
    [action |-> action, response |-> response, caveats |-> caveats,
     audit_notes |-> audit_notes, override_available |-> available,
     override_scope |-> scope]

\* a check that forgets the risk level (mutant of IsCritical)
IsCriticalFlagOnly(auditor) == Contains(auditor.flags, "harmful")

\* _resolve: Flag.HARMFUL in auditor.flags or risk_level == "critical"
IsCritical(auditor) ==
    Contains(auditor.flags, "harmful") \/ auditor.risk_level = "critical"

\* _resolve: the decision for a critical safety issue (lines 398-404)
CriticalDecision(pol) ==
    Decision("reject", RefusalText, <<>>, "Rejected",
             CanOverride(pol, "safety_critical"),
             IF CanOverride(pol, "safety_critical")
             THEN "safety_critical" ELSE "None")

\* _resolve: verdict approve (lines 407-413)
ApproveDecision(worker) ==
    Decision("send", worker.response, worker.caveats, "Approved by auditor",
             FALSE, "None")

\* a revision that is never used (mutant of ReviseDecision)
ReviseDecisionOriginalOnly(worker, auditor) ==
    Decision("send_with_caveat", worker.response,
             Append(worker.caveats, LimitationsNote(auditor.reasoning)),
             "Sent with caveat", FALSE, "None")

\* _resolve: verdict revise (lines 415-431)
ReviseDecision(worker, auditor) ==
    IF auditor.suggested_revision \notin {"None", ""}
    THEN Decision("send_with_caveat", auditor.suggested_revision,
                  Append(worker.caveats, Note(auditor.reasoning)),
                  "Revised", FALSE, "None")
    ELSE Decision("send_with_caveat", worker.response,
                  Append(worker.caveats, LimitationsNote(auditor.reasoning)),
                  "Sent with caveat", FALSE, "None")

\* _resolve: verdict reject (lines 433-440)
RejectDecision(pol) ==
    Decision("reject", ConsultText, <<>>, "Rejected",
             CanOverride(pol, "safety_override"),
             IF CanOverride(pol, "safety_override")
             THEN "safety_override" ELSE "None")

\* an escalation answered as a plain rejection (mutant of EscalateDecision)
EscalateAsReject ==
    Decision("reject", ConsultText, <<>>, "Rejected", FALSE, "None")

\* _resolve: verdict escalate (lines 442-448)
EscalateDecision ==
    Decision("escalate", EscalateText, <<>>, "Escalated", FALSE, "None")

\* _resolve: no branch taken (lines 451-456)
FallbackDecision(worker) ==
    Decision("send_with_caveat", worker.response,
             <<"This response has not been fully verified.">>,
             "Fallback decision", FALSE, "None")

\* Pipeline._resolve
Resolve(worker, auditor, pol) ==
    IF IsCritical(auditor) THEN CriticalDecision(pol)
    ELSE CASE auditor.verdict = "approve" -> ApproveDecision(worker)
           [] auditor.verdict = "revise" -> ReviseDecision(worker, auditor)
           [] auditor.verdict = "reject" -> RejectDecision(pol)
           [] auditor.verdict = "escalate" -> EscalateDecision
           [] OTHER -> FallbackDecision(worker)

\* a threshold that is reached, not exceeded (mutant of SkipAuditor)
SkipAuditorAtThreshold(pol, worker) ==
    /\ pol.configured
    /\ ~Get(pol.safety, "require_auditor", TRUE)
    /\ worker.confidence >= 90

\* run(): skip_auditor (lines 227-231)
SkipAuditor(pol, worker) ==
    /\ pol.configured
    /\ ~RequiresAuditor(pol)
    /\ worker.confidence > SkipConfidence

\* run(): the decision returned when the Auditor is skipped (lines 235-240)
SkipDecision(worker) ==
    Decision("send", worker.response, worker.caveats,
             "Auditor skipped per policy (high confidence)", FALSE, "None")

NoWorkerOutput == WorkerFromJson(<<>>)
NoAuditorOutput ==
    [verdict |-> "none", flags |-> <<>>, reasoning |-> "",
     suggested_revision |-> "None", risk_level |-> "low"]
NoDecision == Decision("none", "", <<>>, "", FALSE, "None")

\* trace entries
Called(name) == [kind |-> "call", name |-> name]
\* an event that reaches the log under another name (mutant of Emitted)
EmittedUnnamed(event_type, details) ==
    [kind |-> "event", name |-> "event", details |-> details]

\* self._audit(event_type, details)
Emitted(event_type, details) ==
    [kind |-> "event", name |-> event_type, details |-> details]

InitPipeline ==
    /\ policy \in Policies
    /\ pstage = "worker"
    /\ worker_output = NoWorkerOutput
    /\ auditor_output = NoAuditorOutput
    /\ decision = NoDecision
    /\ review = "none"
    /\ trace = <<>>

\* no pipeline constructed
PipelineIdle ==
    /\ policy = NoPolicy
    /\ pstage = "idle"
    /\ worker_output = NoWorkerOutput
    /\ auditor_output = NoAuditorOutput
    /\ decision = NoDecision
    /\ review = "none"
    /\ trace = <<>>

\* ------------------------------------------------------ key registry: data
\* Times are in quarter hours; a timedelta is a number of quarter hours.
\* An Optional value is <<>> for None and <<v>> for a value v.
\* secrets.token_urlsafe(16) is modelled collision-free: every session id
\* is one never issued before (the ids are numbered in order of issue).

\* KeyRegistry.DEFAULT_SESSION_DURATION = timedelta(minutes=15)
DefaultSessionDuration == 1

Secrets == {"k_master", "k_mode", "k_old", "k_wrong"}
Scopes == {"mode_control", "safety_override", "*"}

\* the duration argument: None, 0 seconds, an hour
Durations == {<<>>, <<0>>, <<4>>}

\* the sessions requested: with the master key for every scope, with the
\* mode key for its scope and for one it lacks, with a secret that matches
\* no key
CreateRequests ==
    {[secret |-> "k_master", scope |-> "*"],
     [secret |-> "k_mode", scope |-> "mode_control"],
     [secret |-> "k_mode", scope |-> "safety_override"],
     [secret |-> "k_wrong", scope |-> "mode_control"]}

\* KeyRegistry.hash_key: sha256(plaintext).hexdigest(), one digest per text
HashKey(plaintext) ==
    CASE plaintext = "k_master" -> "sha256_of_k_master"
      [] plaintext = "k_mode" -> "sha256_of_k_mode"
      [] plaintext = "k_old" -> "sha256_of_k_old"
      [] OTHER -> "sha256_of_k_wrong"

\* KeyEntry(...), as load / load_dict build it
KeyEntry(id, hash, scopes, expires_at) ==
    [id |-> id, hash |-> hash, scopes |-> scopes, expires_at |-> expires_at]

\* the keys.json of the deployment: a master key, a key for mode switches
\* and a key that expired at time 0
LoadedKeys ==
    <<KeyEntry("master", HashKey("k_master"), <<"*">>, <<>>),
      KeyEntry("mode", HashKey("k_mode"), <<"mode_control">>, <<>>),
      KeyEntry("old", HashKey("k_old"), <<"mode_control">>, <<0>>)>>

\* key_data of keys.json, as json.load gives it
KeyData(id, hash, scopes) == [id |-> id, hash |-> hash, scopes |-> scopes]

\* the keys.json behind LoadedKeys
DeploymentKeys ==
    [keys |-> <<KeyData("master", HashKey("k_master"), <<"*">>),
                KeyData("mode", HashKey("k_mode"), <<"mode_control">>),
                KeyData("old", HashKey("k_old"), <<"mode_control">>)
                    @@ ("expires_at" :> <<0>>)>>]

\* the keys.json that ExpertInABox._create_default_keys writes when there
\* is none: one generated master key
DefaultKeys ==
    [keys |-> <<KeyData("master-001", HashKey("k_master"), <<"*">>)>>]
    @@ ("_generated_master_key" :> "k_master")
    @@ ("_note" :> "SAVE THE MASTER KEY ABOVE! It will not be shown again.")

\* keys.json files of other deployments
ModeKeys == [keys |-> <<KeyData("mode", HashKey("k_mode"), <<"mode_control">>)>>]
ExpiringKeys ==
    [keys |-> <<KeyData("ops", HashKey("k_old"), <<"safety_override">>)
                    @@ ("expires_at" :> <<0>>),
                KeyData("root", HashKey("k_master"), <<"*">>)>>]
NoKeys == [keys |-> <<>>]

KeyConfigs == {DeploymentKeys, DefaultKeys, ModeKeys, ExpiringKeys, NoKeys}

\* KeyRegistry.load on a well-formed file: one KeyEntry per key_data
LoadKeys(config) ==
    [i \in 1..Len(config.keys) |->
        KeyEntry(config.keys[i]["id"], config.keys[i]["hash"],
                 Get(config.keys[i], "scopes", <<>>),
                 Get(config.keys[i], "expires_at", <<>>))]

\* a scope check that knows no wildcard (mutant of HasScope)
HasScopeListedOnly(entry, scope) == Contains(entry.scopes, scope)

\* KeyEntry.has_scope
HasScope(entry, scope) ==
    IF Contains(entry.scopes, "*") THEN TRUE
    ELSE Contains(entry.scopes, scope)

\* a key that never expires (mutant of IsExpired)
IsExpiredNever(entry, t) == FALSE

\* KeyEntry.is_expired
IsExpired(entry, t) ==
    IF entry.expires_at = <<>> THEN FALSE ELSE t > entry.expires_at[1]

\* an event that is always named a failure (mutant of KeyEvent)
KeyEventFailed(event_type, details) ==
    [name |-> "key_validation_failed", details |-> details]

\* self._audit(event_type, details)
KeyEvent(event_type, details) == [name |-> event_type, details |-> details]

\* a result whose error names the reason of the denial (mutant of
\* KeyValidation)
KeyValidationVerbose(valid, key_id, scopes, error, event) ==
    [valid |-> valid, key_id |-> key_id, scopes |-> scopes,
     error |-> IF valid THEN error ELSE <<event.details.reason>>,
     event |-> event]

\* KeyValidation(...) together with the event validate emits
KeyValidation(valid, key_id, scopes, error, event) ==
    [valid |-> valid, key_id |-> key_id, scopes |-> scopes, error |-> error,
     event |-> event]

\* KeyRegistry.validate
Validate(table, plaintext_key, required_scope, t) ==
    LET key_hash == HashKey(plaintext_key)
        matching == {i \in 1..Len(table) : table[i].hash = key_hash}
    IN IF matching = {}
       THEN KeyValidation(FALSE, "None", <<>>, <<"Invalid key">>,
                KeyEvent("key_validation_failed",
                         [reason |-> "no_match",
                          required_scope |-> required_scope]))
       ELSE LET entry ==
                    table[CHOOSE i \in matching : \A j \in matching : i <= j]
            IN IF IsExpired(entry, t)
               THEN KeyValidation(FALSE, entry.id, <<>>,
                        <<"Key has expired">>,
                        KeyEvent("key_validation_failed",
                                 [key_id |-> entry.id, reason |-> "expired",
                                  required_scope |-> required_scope]))
               ELSE IF ~HasScope(entry, required_scope)
               THEN KeyValidation(FALSE, entry.id, entry.scopes,
                        <<"Key does not have scope: ", required_scope>>,
                        KeyEvent("key_validation_failed",
                                 [key_id |-> entry.id,
                                  reason |-> "insufficient_scope",
                                  required_scope |-> required_scope,
                                  available_scopes |-> entry.scopes]))
               ELSE KeyValidation(TRUE, entry.id, entry.scopes, <<>>,
                        KeyEvent("key_validation_success",
                                 [key_id |-> entry.id,
                                  scope |-> required_scope]))

\* OverrideSession(...)
OverrideSession(key_id, scope, granted_at, expires_at) ==
    [key_id |-> key_id, scope |-> scope, granted_at |-> granted_at,
     expires_at |-> expires_at]

\* a session that is still usable at its expiry time (mutant of IsActive)
IsActiveUntilExpiry(session, t) == t <= session.expires_at

\* OverrideSession.is_active: datetime.now() < self.expires_at
IsActive(session, t) == t < session.expires_at

\* `duration or self.DEFAULT_SESSION_DURATION`: None and timedelta(0) are
\* both falsy
Lifetime(duration) ==
    IF duration = <<>> \/ duration[1] = 0 THEN DefaultSessionDuration
    ELSE duration[1]

\* session_id = secrets.token_urlsafe(16)
NewSessionId(count) == count + 1

\* del self._active_sessions[session_id]
Remove(sessions, session_id) ==
    [sid \in DOMAIN sessions \ {session_id} |-> sessions[sid]]

\* what a registry call hands back: its return value, the session table it
\* leaves and the audit events it emitted
Outcome(ok, session, error, count, sessions, events) ==
    [ok |-> ok, session |-> session, error |-> error, count |-> count,
     sessions |-> sessions, events |-> events]

\* KeyRegistry.create_override_session
CreateOverrideSession(table, sessions, count, key, scope, duration, t) ==
    LET validation == Validate(table, key, scope, t)
        expires == t + Lifetime(duration)
        session == OverrideSession(validation.key_id, scope, t, expires)
        session_id == NewSessionId(count)
    IN IF ~validation.valid
       THEN Outcome(FALSE, <<>>, validation.error, 0, sessions,
                    <<validation.event>>)
       ELSE Outcome(TRUE, <<session>>, <<>>, 0,
                    (session_id :> session) @@ sessions,
                    <<validation.event,
                      KeyEvent("override_session_created",
                               [session_id |-> session_id,
                                key_id |-> validation.key_id,
                                scope |-> scope,
                                expires_at |-> expires])>>)

\* KeyRegistry.check_session
CheckSession(sessions, session_id, scope, t) ==
    IF session_id \notin DOMAIN sessions
    THEN Outcome(FALSE, <<>>, <<>>, 0, sessions, <<>>)
    ELSE IF ~IsActive(sessions[session_id], t)
    THEN Outcome(FALSE, <<>>, <<>>, 0, Remove(sessions, session_id),
                 <<KeyEvent("override_session_expired",
                            [session_id |-> session_id])>>)
    ELSE Outcome(sessions[session_id].scope = scope
                    \/ sessions[session_id].scope = "*",
                 <<>>, <<>>, 0, sessions, <<>>)

\* a revocation that leaves expired sessions to the sweep (mutant of
\* RevokeSession)
RevokeSessionIfActive(sessions, session_id, t) ==
    IF session_id \in DOMAIN sessions /\ t < sessions[session_id].expires_at
    THEN Outcome(TRUE, <<>>, <<>>, 0, Remove(sessions, session_id),
                 <<KeyEvent("override_session_revoked",
                            [session_id |-> session_id,
                             key_id |-> sessions[session_id].key_id,
                             scope |-> sessions[session_id].scope])>>)
    ELSE Outcome(FALSE, <<>>, <<>>, 0, sessions, <<>>)

\* KeyRegistry.revoke_session
RevokeSession(sessions, session_id, t) ==
    IF session_id \in DOMAIN sessions
    THEN Outcome(TRUE, <<>>, <<>>, 0, Remove(sessions, session_id),
                 <<KeyEvent("override_session_revoked",
                            [session_id |-> session_id,
                             key_id |-> sessions[session_id].key_id,
                             scope |-> sessions[session_id].scope])>>)
    ELSE Outcome(FALSE, <<>>, <<>>, 0, sessions, <<>>)

\* a sweep that takes every session (mutant of ExpiredSessions)
ExpiredSessionsAll(sessions, t) == DOMAIN sessions

\* cleanup_expired_sessions: the list `expired`
ExpiredSessions(sessions, t) ==
    {sid \in DOMAIN sessions : ~IsActive(sessions[sid], t)}

\* a sweep that reports one removal whatever it removed (mutant of
\* CleanupExpiredSessions)
CleanupExpiredSessionsMiscounted(sessions, t) ==
    Outcome(TRUE, <<>>, <<>>, 1,
            [sid \in DOMAIN sessions \ ExpiredSessions(sessions, t) |->
                sessions[sid]],
            <<KeyEvent("sessions_cleanup", [count |-> 1])>>)

\* KeyRegistry.cleanup_expired_sessions
CleanupExpiredSessions(sessions, t) ==
    LET expired == ExpiredSessions(sessions, t)
    IN Outcome(TRUE, <<>>, <<>>, Cardinality(expired),
               [sid \in DOMAIN sessions \ expired |-> sessions[sid]],
               IF expired # {}
               THEN <<KeyEvent("sessions_cleanup",
                               [count |-> Cardinality(expired)])>>
               ELSE <<>>)

\* the record of one registry call
KeyCall(op, plaintext_key, session_id, scope, duration, outcome, before, t) ==
    [op |-> op, secret |-> plaintext_key, sid |-> session_id,
     scope |-> scope, duration |-> duration, ok |-> outcome.ok,
     session |-> outcome.session, error |-> outcome.error,
     count |-> outcome.count, events |-> outcome.events,
     before |-> before, at |-> t]

NoCall ==
    KeyCall("none", "None", 0, "None", <<>>,
            Outcome(FALSE, <<>>, <<>>, 0, <<>>, <<>>), <<>>, 0)

Requests == {"r1", "r2"}
NoLocals ==
    [op |-> "none", sid |-> 0, key_id |-> "None", scope |-> "None",
     expires_at |-> 0, size |-> 0, todo |-> <<>>, expired |-> <<>>]

\* the KeyValidation a validate call returned
Returned(v) ==
    [valid |-> v.valid, key_id |-> v.key_id, scopes |-> v.scopes,
     error |-> v.error]

\* the deployment's keys.json is on disk
ConfigDeployed == keyConfig = DeploymentKeys

\* KeyRegistry(config_path) on any of the keys.json files
InitRegistry ==
    /\ keyConfig \in KeyConfigs
    /\ keyTable = LoadKeys(keyConfig)
    /\ active_sessions = <<>>
    /\ now = 0
    /\ issued = 0
    /\ kcall = NoCall
    /\ kpc = [r \in Requests |-> "idle"]
    /\ klocal = [r \in Requests |-> NoLocals]
    /\ kraised = "none"

\* KeyRegistry(config_path): the keys loaded, no session
InitKeys ==
    /\ keyTable = LoadedKeys
    /\ active_sessions = <<>>
    /\ now = 0
    /\ issued = 0
    /\ kcall = NoCall
    /\ kpc = [r \in Requests |-> "idle"]
    /\ klocal = [r \in Requests |-> NoLocals]
    /\ kraised = "none"

\* ------------------------------------------------------------ policy: data
\* JSON values of a policy file, tagged with the Python type json.load
\* gives them; each type keeps its content in a field of its own
StrValue(s) == [t |-> "str", s |-> s]
BoolValue(b) == [t |-> "bool", b |-> b]
IntValue(n) == [t |-> "int", n |-> n]
ListValue(items) == [t |-> "list", items |-> items]
DictValue(entries) == [t |-> "dict", entries |-> entries]
NoneValue == [t |-> "NoneType"]

\* isinstance(value, expected_type): bool is a subclass of int
IsInstance(value, type) ==
    value.t = type \/ (type = "int" /\ value.t = "bool")

\* one entry of a schema: {"type", "required", "enum", "schema",
\* "value_schema"}; <<>> for an entry the schema does not have
Field(key, type, required, enum, schema, value_schema) ==
    [key |-> key, type |-> type, required |-> required, enum |-> enum,
     schema |-> schema, value_schema |-> value_schema]

Toggle(key, type) == Field(key, type, FALSE, <<>>, <<>>, <<>>)

\* Policy.SCHEMA, the sections the evaluators read
ModeSchema ==
    <<Field("current", "str", FALSE,
            <<{"education", "emergency", "hybrid"}>>, <<>>, <<>>),
      Field("allowed", "list", TRUE, <<>>, <<>>, <<>>),
      Toggle("switch_requires_key", "bool"),
      Toggle("switch_key_scope", "str")>>

ModuleSchema == <<Toggle("enabled", "bool"), Toggle("loaded", "bool")>>

SafetySchema ==
    <<Toggle("require_auditor", "bool"),
      Toggle("allow_override_on_conflict", "bool"),
      Field("redaction_level", "str", FALSE,
            <<{"none", "minimal", "standard", "strict"}>>, <<>>, <<>>)>>

OutputSchema ==
    <<Field("default_reading_level", "str", FALSE,
            <<{"child", "teen", "general", "technical", "expert"}>>,
            <<>>, <<>>),
      Toggle("allow_profile_override", "bool")>>

AuditSchema ==
    <<Toggle("log_queries", "bool"), Toggle("retention_days", "int")>>

Schema ==
    <<Field("device_id", "str", TRUE, <<>>, <<>>, <<>>),
      Field("mode", "dict", TRUE, <<>>, ModeSchema, <<>>),
      Field("modules", "dict", TRUE, <<>>, <<>>, ModuleSchema),
      Field("safety", "dict", TRUE, <<>>, SafetySchema, <<>>),
      Field("output", "dict", TRUE, <<>>, OutputSchema, <<>>),
      Field("audit", "dict", TRUE, <<>>, AuditSchema, <<>>)>>

\* PolicyViolation(field, message), severity "error" by default; the field
\* path is the sequence of its keys
PolicyViolation(path, message) ==
    [field |-> path, message |-> message, severity |-> "error"]

\* the module names of the deployments, in the order the file lists them
ModuleNames == <<"education", "medical">>

RECURSIVE ValidateObject(_, _, _)
RECURSIVE ValidateFields(_, _, _, _)
RECURSIVE ValidateEntries(_, _, _, _)

\* the dynamic-key loop: every sub_value against the value schema
ValidateEntries(value, value_schema, path, i) ==
    IF i > Len(ModuleNames) THEN <<>>
    ELSE (IF ModuleNames[i] \in DOMAIN value.entries
          THEN ValidateObject(value.entries[ModuleNames[i]], value_schema,
                              Append(path, ModuleNames[i]))
          ELSE <<>>)
         \o ValidateEntries(value, value_schema, path, i + 1)

\* the loop `for key, spec in schema.items()`, from entry i on
ValidateFields(obj, schema, path, i) ==
    IF i > Len(schema) THEN <<>>
    ELSE LET spec == schema[i]
             field_path == Append(path, spec.key)
             rest == ValidateFields(obj, schema, path, i + 1)
         IN IF spec.key \notin DOMAIN obj.entries
            THEN (IF spec.required
                  THEN <<PolicyViolation(field_path, <<"Required field missing">>)>>
                  ELSE <<>>) \o rest
            ELSE IF ~IsInstance(obj.entries[spec.key], spec.type)
            THEN <<PolicyViolation(field_path, <<"Expected", spec.type>>)>>
                 \o rest
            ELSE (IF spec.enum # <<>> /\ obj.entries[spec.key].s \notin spec.enum[1]
                  THEN <<PolicyViolation(field_path, <<"Value must be one of">>)>>
                  ELSE <<>>)
                 \o (IF spec.type = "dict" /\ spec.schema # <<>>
                     THEN ValidateObject(obj.entries[spec.key], spec.schema,
                                         field_path)
                     ELSE <<>>)
                 \o (IF spec.type = "dict" /\ spec.value_schema # <<>>
                     THEN ValidateEntries(obj.entries[spec.key], spec.value_schema,
                                          field_path, 1)
                     ELSE <<>>)
                 \o rest

\* Policy._validate_object: the violations it appends, in order
ValidateObject(obj, schema, path) ==
    IF obj.t # "dict"
    THEN <<PolicyViolation(IF path = <<>> THEN <<"<root>">> ELSE path,
                           <<"Expected object">>)>>
    ELSE ValidateFields(obj, schema, path, 1)

\* a validity test that lets one violation pass (mutant of NoErrors)
NoErrorsButOne(violations) == Len(violations) <= 1

\* len([v for v in self._violations if v.severity == "error"]) == 0
NoErrors(violations) ==
    \A i \in 1..Len(violations) : violations[i].severity # "error"

\* Policy.get(path, default): dot notation, here the sequence of the parts
RECURSIVE PolicyGet(_, _, _)
PolicyGet(value, path, default) ==
    IF path = <<>> THEN value
    ELSE IF value.t = "dict" /\ Head(path) \in DOMAIN value.entries
    THEN PolicyGet(value.entries[Head(path)], Tail(path), default)
    ELSE default

\* bool(value), as `if value` and `x if value else y` take it
Truthy(value) ==
    CASE value.t = "bool" -> value.b
      [] value.t = "str" -> value.s # ""
      [] value.t = "int" -> value.n # 0
      [] value.t = "list" -> value.items # <<>>
      [] value.t = "dict" -> DOMAIN value.entries # {}
      [] OTHER -> FALSE

\* Mode, ReadingLevel
ModeNames == {"education", "emergency", "hybrid"}
ReadingLevels == {"child", "teen", "general", "technical", "expert"}

\* the failed file loads whose violation is still on the list
FailedLoads(violations) ==
    Cardinality({i \in 1..Len(violations) :
                   violations[i].message \in {<<"Invalid JSON">>,
                                              <<"Policy file not found">>}})

\* a call that raises instead of returning
Raised(exception) == [raised |-> exception]

\* Policy.allowed_modes: [Mode(m) for m in modes], or the exception of
\* .get on a non-dict or of Mode(m) on an unknown name
AllowedModes(config) ==
    IF config.t # "dict" THEN Raised("AttributeError")
    ELSE IF "mode" \notin DOMAIN config.entries
    THEN [raised |-> "none", modes |-> <<"education">>]
    ELSE IF config.entries["mode"].t # "dict" THEN Raised("AttributeError")
    ELSE IF "allowed" \notin DOMAIN config.entries["mode"].entries
    THEN [raised |-> "none", modes |-> <<"education">>]
    ELSE LET modes == config.entries["mode"].entries["allowed"]
         IN IF modes.t # "list" THEN Raised("TypeError")
            ELSE IF \E i \in 1..Len(modes.items) :
                       modes.items[i] \notin ModeNames
            THEN Raised("ValueError")
            ELSE [raised |-> "none", modes |-> modes.items]

\* PolicyEvaluation(allowed, requires_key, key_scope, reason)
PolicyEvaluation(allowed, requires_key, key_scope, reason) ==
    [raised |-> "none", allowed |-> allowed, requires_key |-> requires_key,
     key_scope |-> key_scope, reason |-> reason]

\* a switch that asks for no key unless told to (mutant of RequiresKey)
RequiresKeyOptional(config, path) == PolicyGet(config, path, BoolValue(FALSE))

\* self.get("mode.switch_requires_key", True) and its safety counterpart
RequiresKey(config, path) == PolicyGet(config, path, BoolValue(TRUE))

\* Policy.can_switch_mode(target_mode)
CanSwitchMode(config, target_mode) ==
    LET allowed == AllowedModes(config)
        requires_key == RequiresKey(config, <<"mode", "switch_requires_key">>)
        key_scope == PolicyGet(config, <<"mode", "switch_key_scope">>,
                               StrValue("mode_control"))
    IN IF allowed.raised # "none" THEN allowed
       ELSE IF \A i \in 1..Len(allowed.modes) : allowed.modes[i] # target_mode
       THEN PolicyEvaluation(FALSE, BoolValue(FALSE), <<>>,
                             <<"Mode not in allowed modes", target_mode>>)
       ELSE PolicyEvaluation(TRUE, requires_key,
                             IF Truthy(requires_key) THEN <<key_scope>>
                             ELSE <<>>,
                             <<>>)

\* Policy.can_use_module(module_name)
CanUseModule(config, module_name) ==
    LET module == PolicyGet(config, <<"modules", module_name>>, NoneValue)
    IN IF module = NoneValue
       THEN PolicyEvaluation(FALSE, BoolValue(FALSE), <<>>,
                             <<"Module not configured", module_name>>)
       ELSE IF module.t # "dict" THEN Raised("AttributeError")
       ELSE IF ~Truthy(Get(module.entries, "enabled", BoolValue(FALSE)))
       THEN PolicyEvaluation(FALSE, BoolValue(FALSE), <<>>,
                             <<"Module is disabled", module_name>>)
       ELSE IF ~Truthy(Get(module.entries, "loaded", BoolValue(FALSE)))
       THEN PolicyEvaluation(FALSE, BoolValue(FALSE), <<>>,
                             <<"Module is not loaded", module_name>>)
       ELSE PolicyEvaluation(TRUE, BoolValue(FALSE), <<>>, <<>>)

\* Policy.can_override_safety(), the whole evaluation
CanOverrideSafetyEvaluation(config) ==
    LET requires_key == RequiresKey(config,
                                    <<"safety", "override_requires_key">>)
        key_scope == PolicyGet(config, <<"safety", "override_key_scope">>,
                               StrValue("safety_override"))
    IN IF ~Truthy(PolicyGet(config, <<"safety", "allow_override_on_conflict">>,
                            BoolValue(FALSE)))
       THEN PolicyEvaluation(FALSE, BoolValue(FALSE), <<>>,
                             <<"Safety overrides are disabled">>)
       ELSE PolicyEvaluation(TRUE, requires_key,
                             IF Truthy(requires_key) THEN <<key_scope>>
                             ELSE <<>>,
                             <<>>)

\* Policy.requires_auditor(), on the whole configuration
RequiresAuditorValue(config) ==
    [raised |-> "none",
     value |-> PolicyGet(config, <<"safety", "require_auditor">>,
                         BoolValue(TRUE))]

\* ReadingLevel(value): the member, or ValueError
ReadingLevel(value) ==
    IF value.t = "str" /\ value.s \in ReadingLevels
    THEN [raised |-> "none", level |-> value.s]
    ELSE Raised("ValueError")

\* Policy.get_reading_level(profile_level); None is <<>>
GetReadingLevel(config, profile_level) ==
    LET default == PolicyGet(config, <<"output", "default_reading_level">>,
                             StrValue("general"))
    IN IF /\ profile_level # <<>>
          /\ Truthy(StrValue(profile_level[1]))
          /\ Truthy(PolicyGet(config, <<"output", "allow_profile_override">>,
                              BoolValue(TRUE)))
          /\ ReadingLevel(StrValue(profile_level[1])).raised = "none"
       THEN ReadingLevel(StrValue(profile_level[1]))
       ELSE ReadingLevel(default)

\* valid_config of the tests
ValidConfig ==
    DictValue(("device_id" :> StrValue("test-001"))
              @@ ("mode" :> DictValue(
                     ("current" :> StrValue("education"))
                     @@ ("allowed" :> ListValue(<<"education", "emergency">>))))
              @@ ("modules" :> DictValue(
                     "education" :> DictValue(("enabled" :> BoolValue(TRUE))
                                              @@ ("loaded" :> BoolValue(TRUE)))))
              @@ ("safety" :> DictValue(
                     ("require_auditor" :> BoolValue(TRUE))
                     @@ ("redaction_level" :> StrValue("standard"))))
              @@ ("output" :> DictValue(
                     "default_reading_level" :> StrValue("general")))
              @@ ("audit" :> DictValue("log_queries" :> BoolValue(TRUE))))

\* the sections of the policy files of the deployments; <<>> is a file
\* without the section
DeviceIdEntries == {<<>>, "device_id" :> StrValue("test-001")}

ModeEntries ==
    {<<>>, "mode" :> StrValue("education")}
    \cup {"mode" :> DictValue(m) :
            m \in {("current" :> StrValue("education"))
                     @@ ("allowed" :> ListValue(<<"education", "emergency">>)),
                   ("current" :> StrValue("party"))
                     @@ ("allowed" :> ListValue(<<"education", "emergency">>)),
                   ("current" :> StrValue("education")),
                   ("current" :> StrValue("education"))
                     @@ ("allowed" :> ListValue(<<"education", "party">>)),
                   ("current" :> StrValue("education"))
                     @@ ("allowed" :> ListValue(<<"education", "hybrid">>))
                     @@ ("switch_requires_key" :> BoolValue(FALSE)),
                   ("current" :> StrValue("emergency"))
                     @@ ("allowed" :> ListValue(<<"emergency">>))
                     @@ ("switch_requires_key" :> BoolValue(TRUE))
                     @@ ("switch_key_scope" :> StrValue("ops"))}}

ModulesEntries ==
    {<<>>}
    \cup {"modules" :> DictValue(m) :
            m \in {"education" :> DictValue(("enabled" :> BoolValue(TRUE))
                                            @@ ("loaded" :> BoolValue(TRUE))),
                   ("education" :> DictValue("enabled" :> IntValue(1)))
                     @@ ("medical" :> DictValue("loaded" :> StrValue("no")))}}

SafetyEntries ==
    {<<>>}
    \cup {"safety" :> DictValue(m) :
            m \in {("require_auditor" :> BoolValue(FALSE))
                     @@ ("allow_override_on_conflict" :> BoolValue(TRUE)),
                   ("require_auditor" :> StrValue("yes"))
                     @@ ("redaction_level" :> StrValue("loud"))}}

OutputEntries ==
    {<<>>}
    \cup {"output" :> DictValue(m) :
            m \in {("default_reading_level" :> StrValue("wizard")),
                   ("default_reading_level" :> StrValue("child")),
                   ("default_reading_level" :> StrValue("child"))
                     @@ ("allow_profile_override" :> BoolValue(FALSE))}}

AuditEntries ==
    {<<>>}
    \cup {"audit" :> DictValue(m) :
            m \in {("retention_days" :> BoolValue(TRUE))}}

\* what json.load gives for the policy files: objects made of the sections
\* above, the configuration of the tests, and a file that holds a string
PolicyConfigs ==
    {StrValue("policy"), ValidConfig}
    \cup {DictValue(d @@ m @@ mo @@ s @@ o @@ a) :
            d \in DeviceIdEntries, m \in ModeEntries, mo \in ModulesEntries,
            s \in SafetyEntries, o \in OutputEntries, a \in AuditEntries}

\* a file that is not there, and one that is not JSON
MissingFile == [t |-> "missing", path |-> "policy.json"]
MalformedFile == [t |-> "malformed", text |-> "{"]

PolicyFiles == PolicyConfigs \cup {MissingFile, MalformedFile}

\* Policy.validate(): the violations it leaves and the value it returns
Validated(config) ==
    LET violations == ValidateObject(config, Schema, <<>>)
    IN [config |-> config, violations |-> violations,
        returned |-> NoErrors(violations)]

\* Policy.load_dict(config)
LoadDict(config) == Validated(config)

\* Policy.load(config_path) on a policy object holding `config` and
\* `violations`
Load(config, violations, file) ==
    CASE file.t = "malformed" ->
           [config |-> config,
            violations |-> Append(violations,
                              PolicyViolation(<<"<root>">>, <<"Invalid JSON">>)),
            returned |-> FALSE]
      [] file.t = "missing" ->
           [config |-> config,
            violations |-> Append(violations,
                              PolicyViolation(<<"<root>">>,
                                              <<"Policy file not found">>)),
            returned |-> FALSE]
      [] OTHER -> Validated(file)

\* Policy(): no configuration, no violations
EmptyConfig == DictValue(<<>>)

\* one call of a Policy method: what was asked, what came back, and whether
\* the last load of the configuration in place had rejected it
PolicyCall(op, argument, result, rejected) ==
    [op |-> op, argument |-> argument, result |-> result,
     rejected |-> rejected]

\* ------------------------------------------------------------- audit: Init
NoEdit == [line |-> 0, field |-> "none"]
NotVerified ==
    [called |-> FALSE, valid |-> TRUE, issues |-> <<>>, lines |-> 0,
     raised |-> "none"]

Threads == {"pipeline", "keys", "mode_switch"}
NoEvent == NewEvent("None", "None", "None", 0, <<>>)

InitAudit ==
    /\ logFile = <<>>
    /\ lastChecksum = Genesis
    /\ eventCount = 0
    /\ clock = 1
    /\ altered = NoEdit
    /\ verifyResult = NotVerified

InitWriters ==
    /\ lock = "free"
    /\ tpc = [t \in Threads |-> "idle"]
    /\ tevent = [t \in Threads |-> NoEvent]
    /\ calls = 0

\* no redaction under way
RedactIdle ==
    /\ redaction_level = "standard"
    /\ caller_details = <<>>
    /\ redacted = NotRedacted

NoLogCall == [result |-> "none", via |-> "none", lines |-> 0, failed |-> 0]

\* no log() call made yet
StoreIdle == lcall = NoLogCall

\* no read of the log yet
QueryIdle == qcall = [op |-> "none"]

\* the policy of the tests is loaded
PolicyIdle ==
    /\ pconfig = ValidConfig
    /\ pviolations = <<>>
    /\ pcall = PolicyCall("none", <<>>, [returned |-> TRUE], FALSE)

\* no switch_mode call yet
ModeIdle == mcall = [op |-> "none"]

\* RAOManager(): no sequence recorded, no bundle applied
RaoIdle ==
    /\ last_sequence = <<>>
    /\ issuer_keys = {}
    /\ rcall = [op |-> "none", accepted |-> {}]

ExtraIdle == QueryIdle /\ PolicyIdle /\ ModeIdle /\ RaoIdle

Init ==
    /\ InitAudit /\ InitWriters /\ PipelineIdle /\ InitKeys
    /\ ConfigDeployed /\ RedactIdle /\ StoreIdle /\ ExtraIdle

\* ---------------------------------------------------------- audit: actions
\* log(event_type, details, session_id), run to completion by one caller
Log(event_type, details, session_id) ==
    /\ altered = NoEdit
    /\ Len(logFile) < MaxLog
    /\ LET event == Sealed(NewEvent(event_type, details, session_id, clock,
                                    lastChecksum), lastChecksum)
       IN /\ logFile' = Append(logFile, ToJson(event))
          /\ lastChecksum' = event.checksum
    /\ eventCount' = eventCount + 1
    /\ clock' = clock + 1
    /\ UNCHANGED <<altered, verifyResult, writerVars, pipelineVars, otherVars, keyVars, keyThreadVars>>

\* AuditLogger(log_path) on the existing file: a process restart
Restart ==
    /\ altered = NoEdit
    /\ lastChecksum' = LoadLastChecksum(logFile)
    /\ eventCount' = 0
    /\ UNCHANGED <<logFile, clock, altered, verifyResult, writerVars, pipelineVars, otherVars, keyVars, keyThreadVars>>

\* verify_integrity()
Verify ==
    /\ verifyResult' = [called |-> TRUE,
                        valid |-> VerifyIntegrity(logFile).valid,
                        issues |-> VerifyIntegrity(logFile).issues,
                        lines |-> Len(logFile),
                        raised |-> VerifyIntegrity(logFile).raised]
    /\ UNCHANGED <<logFile, lastChecksum, eventCount, clock, altered,
                   writerVars, pipelineVars, otherVars, keyVars, keyThreadVars>>

\* A hand edit of the file: one field of one record gets another value.
FieldIndex(field) == CHOOSE i \in 1..Len(FieldNames) : FieldNames[i] = field

ForgedChecksum == <<99>>

FieldValues(file, field) ==
    CASE field = "timestamp" -> 0..1
      [] field = "event_type" -> EventTypes \cup {"forged"}
      [] field = "session_id" -> Sessions
      [] field = "device_id" -> {DeviceId, "forged"}
      [] field = "details" -> Details
      [] OTHER -> {Genesis, ForgedChecksum}
                   \cup {JsonLoads(file[i]).checksum : i \in 1..Len(file)}

Edit(k, field, value) ==
    /\ altered = NoEdit
    /\ k \in 1..Len(logFile)
    /\ value # logFile[k][FieldIndex(field)]
    /\ logFile' = [logFile EXCEPT ![k][FieldIndex(field)] = value]
    /\ altered' = [line |-> k, field |-> field]
    /\ verifyResult' = NotVerified
    /\ UNCHANGED <<lastChecksum, eventCount, clock, writerVars, pipelineVars, otherVars, keyVars, keyThreadVars>>

\* ------------------------------------------- audit: hand edits of the file
\* lines i..j are deleted from the file
RemoveRecords(i, j) ==
    /\ altered = NoEdit
    /\ 1 <= i /\ i <= j /\ j <= Len(logFile)
    /\ logFile' = SubSeq(logFile, 1, i - 1)
                     \o SubSeq(logFile, j + 1, Len(logFile))
    /\ altered' = [line |-> i, field |-> "removed"]
    /\ verifyResult' = NotVerified
    /\ UNCHANGED <<lastChecksum, eventCount, clock, writerVars, pipelineVars, otherVars, keyVars, keyThreadVars>>

\* a record written by hand to follow line k - 1: its previous_checksum is
\* the checksum of that line and its own checksum is computed as log() does
ForgedRecord(file, k) ==
    LET head == IF k = 1 THEN Genesis ELSE JsonLoads(file[k - 1]).checksum
    IN ToJson(Sealed(NewEvent("forged", "d1", "None", 0, head), head))

\* the records a hand edit can insert at line k: a copy of a record of the
\* file, or a forged one
Insertable(file, k) ==
    {file[i] : i \in 1..Len(file)} \cup {ForgedRecord(file, k)}

\* a record is inserted as line k
InsertRecord(k) ==
    /\ altered = NoEdit
    /\ Len(logFile) >= 1
    /\ k \in 1..(Len(logFile) + 1)
    /\ \E line \in Insertable(logFile, k) :
          logFile' = SubSeq(logFile, 1, k - 1) \o <<line>>
                       \o SubSeq(logFile, k, Len(logFile))
    /\ altered' = [line |-> k, field |-> "inserted"]
    /\ verifyResult' = NotVerified
    /\ UNCHANGED <<lastChecksum, eventCount, clock, writerVars, pipelineVars, otherVars, keyVars, keyThreadVars>>

\* lines i and j change places
SwapRecords(i, j) ==
    /\ altered = NoEdit
    /\ 1 <= i /\ i < j /\ j <= Len(logFile)
    /\ logFile' = [logFile EXCEPT ![i] = logFile[j], ![j] = logFile[i]]
    /\ altered' = [line |-> i, field |-> "swapped"]
    /\ verifyResult' = NotVerified
    /\ UNCHANGED <<lastChecksum, eventCount, clock, writerVars, pipelineVars, otherVars, keyVars, keyThreadVars>>

\* what a hand edit can leave in place of a record
Corruptions(line) == {Garbage, JsonArray, DropChecksum(line)}

\* line k is overwritten with something that is not a record of log()
CorruptLine(k) ==
    /\ altered = NoEdit
    /\ k \in 1..Len(logFile)
    /\ \E line \in Corruptions(logFile[k]) :
          logFile' = [logFile EXCEPT ![k] = line]
    /\ altered' = [line |-> k, field |-> "corrupted"]
    /\ verifyResult' = NotVerified
    /\ UNCHANGED <<lastChecksum, eventCount, clock, writerVars, pipelineVars, otherVars, keyVars, keyThreadVars>>

NextTamper ==
    \/ \E c \in LogCalls : Log(c.event_type, c.details, c.session_id)
    \/ \E i, j \in 1..MaxLog : RemoveRecords(i, j)
    \/ \E k \in 1..(MaxLog + 1) : InsertRecord(k)
    \/ \E i, j \in 1..MaxLog : SwapRecords(i, j)
    \/ \E k \in 1..MaxLog : CorruptLine(k)
    \/ Verify

SpecTamper == Init /\ [][NextTamper]_vars

\* ------------------------------------------------------ audit: reading
\* the arguments of query(); None is <<>>, a list of event types is a set
\* in a one-element tuple, a datetime is a clock value in a one-element tuple
Filters(event_types, session_id, from_time, to_time, limit) ==
    [event_types |-> event_types, from_time |-> from_time, limit |-> limit,
     session_id |-> session_id, to_time |-> to_time]

\* a query that stops one record late (mutant of LimitReached)
LimitReachedLate(results, limit) == Len(results) > limit

\* `if len(results) >= limit: break`
LimitReached(results, limit) == Len(results) >= limit

\* the `continue` tests of the loop: a filter that is None or empty is not
\* applied (`if event_types and ...`, `if session_id and ...`); the time
\* bounds are compared with < and >, so both are inclusive
FilteredOut(data, filters) ==
    \/ /\ filters.event_types # <<>>
       /\ filters.event_types[1] # {}
       /\ data.event_type \notin filters.event_types[1]
    \/ /\ filters.session_id \notin {"None", ""}
       /\ data.session_id # filters.session_id
    \/ /\ filters.from_time # <<>>
       /\ data.timestamp < filters.from_time[1]
    \/ /\ filters.to_time # <<>>
       /\ data.timestamp > filters.to_time[1]

\* the loop `for line in f` of query(), from line i on
RECURSIVE QueryLoop(_, _, _, _)
QueryLoop(file, i, results, filters) ==
    IF i > Len(file) \/ LimitReached(results, filters.limit) THEN results
    ELSE IF FilteredOut(JsonLoads(file[i]), filters)
    THEN QueryLoop(file, i + 1, results, filters)
    ELSE QueryLoop(file, i + 1, Append(results, JsonLoads(file[i])), filters)

\* AuditLogger.query(event_types, session_id, from_time, to_time, limit)
Query(file, filters) == QueryLoop(file, 1, <<>>, filters)

\* limit=1000, the default of query(); limit=100000, what export() passes
DefaultLimit == 1000
ExportLimit == 100000

\* AuditLogger.export(output_path, from_time, to_time): the lines written
\* to the output file, which is another file than the log
Export(file, from_time, to_time) ==
    LET events == Query(file, Filters(<<>>, "None", from_time, to_time,
                                      ExportLimit))
    IN [output |-> [k \in 1..Len(events) |-> ToJson(events[k])],
        returned |-> Len(events)]

\* AuditLogger.get_stats()
GetStats(file) ==
    IF file = <<>> THEN [events |-> 0, size_bytes |-> 0]
    ELSE [events |-> Len(file),
          size_bytes |-> Len(file),
          by_type |-> [type \in {JsonLoads(file[i]).event_type :
                                    i \in 1..Len(file)} |->
                          Cardinality({i \in 1..Len(file) :
                                         JsonLoads(file[i]).event_type = type})],
          integrity_verified |-> VerifyIntegrity(file).valid]

\* the queries of the callers: the web console filters by event type and
\* limit, the others by session and by time
EventTypeFilters == {<<>>, <<{}>>, <<{"query"}>>}
SessionFilters == {"None", "s1"}
TimeFilters == {<<>>, <<2>>}
Limits == {1, DefaultLimit}

QueryCall(event_types, session_id, from_time, to_time, limit) ==
    /\ altered = NoEdit
    /\ qcall' = [op |-> "query", lines |-> Len(logFile),
                 filters |-> Filters(event_types, session_id, from_time,
                                     to_time, limit),
                 results |-> Query(logFile,
                                   Filters(event_types, session_id,
                                           from_time, to_time, limit))]
    /\ UNCHANGED <<auditVars, writerVars, pipelineVars, keyVars,
                   keyThreadVars, configVars, redactVars, storeVars,
                   policyVars, modeVars, raoVars>>

ExportCall(from_time, to_time) ==
    /\ altered = NoEdit
    /\ qcall' = [op |-> "export", lines |-> Len(logFile),
                 filters |-> Filters(<<>>, "None", from_time, to_time,
                                     ExportLimit),
                 output |-> Export(logFile, from_time, to_time).output,
                 returned |-> Export(logFile, from_time, to_time).returned]
    /\ UNCHANGED <<auditVars, writerVars, pipelineVars, keyVars,
                   keyThreadVars, configVars, redactVars, storeVars,
                   policyVars, modeVars, raoVars>>

GetStatsCall ==
    /\ altered = NoEdit
    /\ qcall' = [op |-> "get_stats", lines |-> Len(logFile),
                 stats |-> GetStats(logFile)]
    /\ UNCHANGED <<auditVars, writerVars, pipelineVars, keyVars,
                   keyThreadVars, configVars, redactVars, storeVars,
                   policyVars, modeVars, raoVars>>

NextQuery ==
    \/ \E c \in {l \in LogCalls : l.details = "d1"} :
          Log(c.event_type, c.details, c.session_id)
    \/ \E e \in EventTypeFilters, s \in SessionFilters, from_time \in TimeFilters, to_time \in TimeFilters, limit \in Limits :
          QueryCall(e, s, from_time, to_time, limit)
    \/ \E from_time \in TimeFilters, to_time \in TimeFilters :
          ExportCall(from_time, to_time)
    \/ GetStatsCall
    \/ Verify

SpecQuery == Init /\ [][NextQuery]_vars

\* the lines of the file that pass the filters of the last read, in file
\* order; the file holds what it held then and what was appended since
Selected ==
    {i \in 1..qcall.lines : ~FilteredOut(JsonLoads(logFile[i]), qcall.filters)}

\* the line of the k-th match
SelectedAt(k) ==
    CHOOSE i \in Selected : Cardinality({j \in Selected : j <= i}) = k

\* C31: query returns the first `limit` records that pass its filters, in
\* file order and each once (a filter that is None or empty does not
\* filter); export writes those of the time range to its output file; and
\* query, verify_integrity, export and get_stats leave the log file, the
\* chain head and the event count as they were.
C31_QueryFirstMatches ==
    /\ [](/\ qcall.op = "query" =>
                /\ Len(qcall.results)
                     = IF Cardinality(Selected) < qcall.filters.limit
                       THEN Cardinality(Selected) ELSE qcall.filters.limit
                /\ \A k \in 1..Len(qcall.results) :
                      qcall.results[k] = JsonLoads(logFile[SelectedAt(k)])
          /\ qcall.op = "export" =>
                /\ qcall.returned = Cardinality(Selected)
                /\ Len(qcall.output) = qcall.returned
                /\ \A k \in 1..Len(qcall.output) :
                      qcall.output[k] = logFile[SelectedAt(k)]
          /\ qcall.op = "get_stats" /\ qcall.lines > 0 =>
                qcall.stats.events = qcall.lines)
    /\ [][(qcall' # qcall \/ verifyResult' # verifyResult) =>
             UNCHANGED <<logFile, lastChecksum, eventCount>>]_vars

\* a query by event type with limit 1 on a log of three records, two of
\* which match: it returned the first of the two, which is not the first
\* record of the file
C31_Witness ==
    /\ qcall.op = "query"
    /\ qcall.filters.event_types = <<{"query"}>>
    /\ qcall.filters.limit = 1
    /\ qcall.lines = 3
    /\ Cardinality(Selected) = 2
    /\ Len(qcall.results) = 1
    /\ SelectedAt(1) = 2
    /\ lastChecksum = JsonLoads(logFile[3]).checksum

\* ------------------------------------------------ audit: failing store
\* a log() that takes the append for done whether or not it was (mutant of
\* Failed)
FailedSwallowed(event, head, count) ==
    [head |-> event.checksum, count |-> count + 1, result |-> "returned"]

\* log() when open() or f.write() raises: the statements after the `with`
\* block are not reached and the exception leaves log()
Failed(event, head, count) ==
    [head |-> head, count |-> count, result |-> "raised"]

\* how log() is reached: called directly (main.py) or through the callback
\* of create_audit_callback that the components hold
Callers == {"direct", "callback"}

\* log(event_type, details, session_id) on a store that refuses the append:
\* nothing is written
LogFails(event_type, details, session_id, via) ==
    /\ altered = NoEdit
    /\ lcall.failed < MaxFailures
    /\ LET event == Sealed(NewEvent(event_type, details, session_id, clock,
                                    lastChecksum), lastChecksum)
           out == Failed(event, lastChecksum, eventCount)
       IN /\ lastChecksum' = out.head
          /\ eventCount' = out.count
          /\ lcall' = [result |-> out.result, via |-> via,
                       lines |-> Len(logFile), failed |-> lcall.failed + 1]
    /\ clock' = clock + 1
    /\ UNCHANGED <<logFile, altered, verifyResult, writerVars, pipelineVars,
                   configVars, redactVars, extraVars, keyVars, keyThreadVars>>

NextStore ==
    \/ \E c \in LogCalls : Log(c.event_type, c.details, c.session_id)
    \/ \E c \in LogCalls, via \in Callers :
          LogFails(c.event_type, c.details, c.session_id, via)
    \/ Restart

SpecStore == Init /\ [][NextStore]_vars

\* ---------------------------------------------------- audit: redaction
\* redacted_details = self._redact(details), as log() calls it
RedactCall ==
    /\ redacted' = [called |-> TRUE, given |-> caller_details,
                    returned |-> Redact(redaction_level,
                                        caller_details).returned]
    /\ caller_details' = Redact(redaction_level, caller_details).caller
    /\ UNCHANGED <<redaction_level, auditVars, writerVars, pipelineVars,
                   configVars, storeVars, extraVars, keyVars, keyThreadVars>>

\* AuditLogger(redaction_level=...) and the details of one log() call
InitRedact ==
    /\ InitAudit /\ InitWriters /\ PipelineIdle /\ InitKeys
    /\ ConfigDeployed /\ StoreIdle /\ ExtraIdle
    /\ redaction_level \in RedactionLevels
    /\ caller_details \in DetailsInputs
    /\ redacted = NotRedacted

NextRedact == RedactCall

SpecRedact == InitRedact /\ [][NextRedact]_vars

\* --------------------------------------------- audit: concurrent writers
\* log() step by step, for the writers that share one AuditLogger
\* a lock that lets everyone in (mutant of LockAvailable)
LockIgnored == TRUE

\* `with self._lock:` can be entered
LockAvailable == lock = "free"

InFlight == {t \in Threads : tpc[t] # "idle"}

\* the call enters the critical section and normalises the event type
LogEnter(t, c) ==
    /\ tpc[t] = "idle"
    /\ LockAvailable
    /\ calls + Cardinality(InFlight) < MaxLog
    /\ lock' = t
    /\ tpc' = [tpc EXCEPT ![t] = "create"]
    /\ tevent' = [tevent EXCEPT ![t] =
                     NewEvent(c.event_type, c.details, c.session_id, 0, <<>>)]
    /\ UNCHANGED <<auditVars, calls, pipelineVars, otherVars, keyVars, keyThreadVars>>

\* timestamp, redaction, AuditEvent(previous_checksum=self._last_checksum)
LogCreate(t) ==
    /\ tpc[t] = "create"
    /\ tevent' = [tevent EXCEPT ![t] =
                     NewEvent(tevent[t].event_type, tevent[t].details,
                              tevent[t].session_id, clock, lastChecksum)]
    /\ clock' = clock + 1
    /\ tpc' = [tpc EXCEPT ![t] = "checksum"]
    /\ UNCHANGED <<logFile, lastChecksum, eventCount, altered, verifyResult,
                   lock, calls, pipelineVars, otherVars, keyVars, keyThreadVars>>

\* event.checksum = _compute_checksum(event_dict, self._last_checksum)
LogChecksum(t) ==
    /\ tpc[t] = "checksum"
    /\ tevent' = [tevent EXCEPT ![t] = Sealed(tevent[t], lastChecksum)]
    /\ tpc' = [tpc EXCEPT ![t] = "write"]
    /\ UNCHANGED <<auditVars, lock, calls, pipelineVars, otherVars, keyVars, keyThreadVars>>

\* f.write(event.to_json() + "\n")
LogWrite(t) ==
    /\ tpc[t] = "write"
    /\ logFile' = Append(logFile, ToJson(tevent[t]))
    /\ tpc' = [tpc EXCEPT ![t] = "advance"]
    /\ UNCHANGED <<lastChecksum, eventCount, clock, altered, verifyResult,
                   lock, tevent, calls, pipelineVars, otherVars, keyVars, keyThreadVars>>

\* advance the head, count the event, leave the critical section, return
LogReturn(t) ==
    /\ tpc[t] = "advance"
    /\ lastChecksum' = tevent[t].checksum
    /\ eventCount' = eventCount + 1
    /\ lock' = "free"
    /\ tpc' = [tpc EXCEPT ![t] = "idle"]
    /\ calls' = calls + 1
    /\ tevent' = [tevent EXCEPT ![t] = NoEvent]
    /\ UNCHANGED <<logFile, clock, altered, verifyResult, pipelineVars, otherVars, keyVars, keyThreadVars>>

NextWriters ==
    \/ \E t \in Threads, c \in LogCalls : LogEnter(t, c)
    \/ \E t \in Threads : LogCreate(t)
    \/ \E t \in Threads : LogChecksum(t)
    \/ \E t \in Threads : LogWrite(t)
    \/ \E t \in Threads : LogReturn(t)
    \/ Verify

SpecWriters == Init /\ [][NextWriters]_vars

NextAudit ==
    \/ \E c \in LogCalls : Log(c.event_type, c.details, c.session_id)
    \/ Restart
    \/ Verify
    \/ \E k \in 1..MaxLog, f \in {FieldNames[i] : i \in 1..Len(FieldNames)} :
          \E v \in FieldValues(logFile, f) : Edit(k, f, v)

SpecAudit == Init /\ [][NextAudit]_vars

\* ------------------------------------------------------ pipeline: actions
\* an order that goes from the skip decision straight to the resolver
\* (mutant of StageAfter)
StageAfterWithoutAuditor(stage, skip) ==
    CASE stage = "worker" -> "decide"
      [] stage = "decide" -> IF skip THEN "done" ELSE "resolve"
      [] stage = "auditor" -> "resolve"
      [] OTHER -> "done"

\* run(): the order of its steps (lines 217-261)
StageAfter(stage, skip) ==
    CASE stage = "worker" -> "decide"
      [] stage = "decide" -> IF skip THEN "done" ELSE "auditor"
      [] stage = "auditor" -> "resolve"
      [] OTHER -> "done"

\* Step 1 with the structured call answering: _run_worker's try branch,
\* then the worker_complete event
RunWorkerJson(text) ==
    /\ pstage = "worker"
    /\ IsDict(ParseJson(text))
    /\ worker_output' = WorkerFromJson(ParseJson(text))
    /\ trace' = trace \o
          <<Called("worker.generate_json"),
            Emitted("worker_complete",
                    [confidence |-> worker_output'.confidence,
                     citation_count |-> Len(worker_output'.citations)])>>
    /\ pstage' = StageAfter(pstage, FALSE)
    /\ UNCHANGED <<auditVars, writerVars, keyVars, keyThreadVars, otherVars,
                   policy, auditor_output, decision,
                   review>>

\* Step 1 with the structured call failing (it raises, or its result is no
\* object) and the plain-text call answering: the except branch
RunWorkerText(failure, raw) ==
    /\ pstage = "worker"
    /\ failure \in {"raised", "non_object"}
    /\ worker_output' = WorkerFromText(raw)
    /\ trace' = trace \o
          <<Called("worker.generate_json"), Called("worker.generate"),
            Emitted("worker_complete",
                    [confidence |-> worker_output'.confidence,
                     citation_count |-> Len(worker_output'.citations)])>>
    /\ pstage' = StageAfter(pstage, FALSE)
    /\ UNCHANGED <<auditVars, writerVars, keyVars, keyThreadVars, otherVars,
                   policy, auditor_output, decision,
                   review>>

\* Step 1 with both calls failing: generate() raises inside the except
\* branch, nothing catches it, run() raises to its caller
RunWorkerRaises(failure) ==
    /\ pstage = "worker"
    /\ failure \in {"raised", "non_object"}
    /\ trace' = trace \o
          <<Called("worker.generate_json"), Called("worker.generate")>>
    /\ pstage' = "raised"
    /\ UNCHANGED <<auditVars, writerVars, keyVars, keyThreadVars, otherVars,
                   policy, worker_output,
                   auditor_output, decision, review>>

\* Step 2: skip the Auditor and return, or go on to it
DecideSkip ==
    /\ pstage = "decide"
    /\ IF SkipAuditor(policy, worker_output)
       THEN /\ decision' = SkipDecision(worker_output)
            /\ trace' = Append(trace,
                  Emitted("auditor_skipped",
                          [reason |-> "policy + high confidence"]))
       ELSE UNCHANGED <<decision, trace>>
    /\ pstage' = StageAfter(pstage, SkipAuditor(policy, worker_output))
    /\ UNCHANGED <<auditVars, writerVars, keyVars, keyThreadVars, otherVars,
                   policy, worker_output,
                   auditor_output, review>>

\* how an Auditor answer fails to be a review, "none" if it does not
ReviewOf(result) ==
    CASE result = Sentinel -> "sentinel"
      [] ~IsDict(result) -> "non_object"
      [] "verdict" \notin DOMAIN result -> "verdict_missing"
      [] result["verdict"] \notin VerdictValues -> "verdict_unrecognized"
      [] OTHER -> "none"

\* Step 3 with the structured call answering, then auditor_complete
RunAuditorJson(text) ==
    /\ pstage = "auditor"
    /\ auditor_output' = AuditorFromJson(ParseJson(text))
    /\ review' = ReviewOf(ParseJson(text))
    /\ trace' = trace \o
          <<Called("auditor.generate_json"),
            Emitted("auditor_complete",
                    [verdict |-> auditor_output'.verdict,
                     flags |-> auditor_output'.flags,
                     risk_level |-> auditor_output'.risk_level])>>
    /\ pstage' = StageAfter(pstage, FALSE)
    /\ UNCHANGED <<auditVars, writerVars, keyVars, keyThreadVars, otherVars,
                   policy, worker_output, decision>>

\* Step 3 with the structured call raising (timeout, transport failure)
RunAuditorRaises ==
    /\ pstage = "auditor"
    /\ auditor_output' = ConservativeFallback
    /\ review' = "raised"
    /\ trace' = trace \o
          <<Called("auditor.generate_json"),
            Emitted("auditor_complete",
                    [verdict |-> auditor_output'.verdict,
                     flags |-> auditor_output'.flags,
                     risk_level |-> auditor_output'.risk_level])>>
    /\ pstage' = StageAfter(pstage, FALSE)
    /\ UNCHANGED <<auditVars, writerVars, keyVars, keyThreadVars, otherVars,
                   policy, worker_output, decision>>

\* Step 4: _resolve, the resolver_decision event, return
ResolveStep ==
    /\ pstage = "resolve"
    /\ decision' = Resolve(worker_output, auditor_output, policy)
    /\ trace' = trace \o
          <<Called("_resolve"),
            Emitted("resolver_decision",
                    [action |-> decision'.action,
                     override_available |-> decision'.override_available])>>
    /\ pstage' = StageAfter(pstage, FALSE)
    /\ UNCHANGED <<auditVars, writerVars, keyVars, keyThreadVars, otherVars,
                   policy, worker_output,
                   auditor_output, review>>

NextPipeline ==
    \/ \E text \in Texts(WorkerObjects) : RunWorkerJson(text)
    \/ \E f \in {"raised", "non_object"}, raw \in {"raw1"} :
          RunWorkerText(f, raw)
    \/ \E f \in {"raised", "non_object"} : RunWorkerRaises(f)
    \/ DecideSkip
    \/ \E text \in Texts(AuditorObjects) : RunAuditorJson(text)
    \/ RunAuditorRaises
    \/ ResolveStep

InitRun ==
    /\ InitAudit /\ InitWriters /\ InitPipeline /\ InitKeys
    /\ ConfigDeployed /\ RedactIdle /\ StoreIdle /\ ExtraIdle

SpecPipeline == InitRun /\ [][NextPipeline]_vars

\* ------------------------------------------------- key registry: actions
\* time passes between calls
Tick ==
    /\ now < MaxTime
    /\ now' = now + 1
    /\ UNCHANGED <<auditVars, writerVars, pipelineVars, otherVars, keyTable,
                   active_sessions, issued, kcall, keyThreadVars>>

\* validate(plaintext_key, required_scope)
ValidateCall(plaintext_key, required_scope) ==
    /\ LET v == Validate(keyTable, plaintext_key, required_scope, now)
       IN kcall' = ("validation" :> Returned(v))
                   @@ KeyCall("validate", plaintext_key, 0, required_scope,
                              <<>>,
                              Outcome(v.valid, <<>>, v.error, 0,
                                      active_sessions, <<v.event>>),
                              active_sessions, now)
    /\ UNCHANGED <<auditVars, writerVars, pipelineVars, otherVars, keyTable,
                   active_sessions, now, issued, keyThreadVars>>

\* create_override_session(plaintext_key, scope, action, duration)
CreateCall(plaintext_key, scope, duration) ==
    LET outcome == CreateOverrideSession(keyTable, active_sessions, issued,
                                         plaintext_key, scope, duration, now)
    IN /\ outcome.ok => issued < MaxSessions
       /\ active_sessions' = outcome.sessions
       /\ issued' = IF outcome.ok THEN issued + 1 ELSE issued
       /\ kcall' = KeyCall("create_override_session", plaintext_key,
                           IF outcome.ok THEN NewSessionId(issued) ELSE 0,
                           scope, duration, outcome, active_sessions, now)
       /\ UNCHANGED <<auditVars, writerVars, pipelineVars, otherVars, keyTable, now,
                      keyThreadVars>>

\* check_session(session_id, scope)
CheckCall(session_id, scope) ==
    LET outcome == CheckSession(active_sessions, session_id, scope, now)
    IN /\ active_sessions' = outcome.sessions
       /\ kcall' = KeyCall("check_session", "None", session_id, scope, <<>>,
                           outcome, active_sessions, now)
       /\ UNCHANGED <<auditVars, writerVars, pipelineVars, otherVars, keyTable, now,
                      issued, keyThreadVars>>

\* revoke_session(session_id)
RevokeCall(session_id) ==
    LET outcome == RevokeSession(active_sessions, session_id, now)
    IN /\ active_sessions' = outcome.sessions
       /\ kcall' = KeyCall("revoke_session", "None", session_id, "None", <<>>,
                           outcome, active_sessions, now)
       /\ UNCHANGED <<auditVars, writerVars, pipelineVars, otherVars, keyTable, now,
                      issued, keyThreadVars>>

\* cleanup_expired_sessions()
CleanupCall ==
    LET outcome == CleanupExpiredSessions(active_sessions, now)
    IN /\ active_sessions' = outcome.sessions
       /\ kcall' = KeyCall("cleanup_expired_sessions", "None", 0, "None",
                           <<>>, outcome, active_sessions, now)
       /\ UNCHANGED <<auditVars, writerVars, pipelineVars, otherVars, keyTable, now,
                      issued, keyThreadVars>>

\* the session ids a caller may present: the issued ones and an unknown one
SessionIds == 1..(MaxSessions + 1)

NextKeys ==
    \/ Tick
    \/ \E k \in Secrets, s \in Scopes : ValidateCall(k, s)
    \/ \E c \in CreateRequests, d \in Durations :
          CreateCall(c.secret, c.scope, d)
    \/ \E sid \in SessionIds, s \in Scopes : CheckCall(sid, s)
    \/ \E sid \in SessionIds : RevokeCall(sid)
    \/ CleanupCall

SpecKeys == Init /\ [][NextKeys]_vars

\* validate on the registries of different deployments
NextValidate ==
    \/ Tick
    \/ \E k \in Secrets, s \in Scopes : ValidateCall(k, s)

InitValidate ==
    /\ InitAudit /\ InitWriters /\ PipelineIdle /\ InitRegistry
    /\ RedactIdle /\ StoreIdle /\ ExtraIdle

SpecValidate == InitValidate /\ [][NextValidate]_vars

\* ------------------------------------- key registry: concurrent requests
\* The registry methods statement by statement, for requests that are
\* served by different threads on the one registry; a step that raises
\* ends the call and is recorded in kraised.
Locals(op, session_id, key_id, scope, expires_at, size, todo, expired) ==
    [op |-> op, sid |-> session_id, key_id |-> key_id, scope |-> scope,
     expires_at |-> expires_at, size |-> size, todo |-> todo,
     expired |-> expired]

\* the ids of a session table in iteration (insertion) order
RECURSIVE InOrder(_, _)
InOrder(sessions, from) ==
    IF \A sid \in DOMAIN sessions : sid < from THEN <<>>
    ELSE IF from \in DOMAIN sessions
         THEN <<from>> \o InOrder(sessions, from + 1)
         ELSE InOrder(sessions, from + 1)

\* a call returns
Return(r) ==
    /\ kpc' = [kpc EXCEPT ![r] = "idle"]
    /\ klocal' = [klocal EXCEPT ![r] = NoLocals]

\* a call raises
Raise(r, exception) ==
    /\ Return(r)
    /\ kraised' = exception

\* check_session: session = self._active_sessions.get(session_id), on an
\* id that is in the table
KCheckGet(r, session_id, scope) ==
    /\ kpc[r] = "idle"
    /\ session_id \in DOMAIN active_sessions
    /\ kpc' = [kpc EXCEPT ![r] = "check_active"]
    /\ klocal' = [klocal EXCEPT ![r] =
                     Locals("check_session", session_id, "None", scope,
                            active_sessions[session_id].expires_at, 0,
                            <<>>, <<>>)]
    /\ UNCHANGED <<auditVars, writerVars, pipelineVars, otherVars, keyVars, kraised>>

\* check_session: session.is_active(), then the scope comparison
KCheckActive(r) ==
    /\ kpc[r] = "check_active"
    /\ IF now < klocal[r].expires_at
       THEN Return(r)
       ELSE /\ kpc' = [kpc EXCEPT ![r] = "check_del"]
            /\ UNCHANGED klocal
    /\ UNCHANGED <<auditVars, writerVars, pipelineVars, otherVars, keyVars, kraised>>

\* check_session: del self._active_sessions[session_id], the event, return
KCheckDel(r) ==
    /\ kpc[r] = "check_del"
    /\ klocal[r].sid \in DOMAIN active_sessions
    /\ active_sessions' = Remove(active_sessions, klocal[r].sid)
    /\ Return(r)
    /\ UNCHANGED <<auditVars, writerVars, pipelineVars, otherVars, keyTable, now, issued,
                   kcall, kraised>>

\* check_session: the del finds the id gone
KCheckDelRaises(r) ==
    /\ kpc[r] = "check_del"
    /\ klocal[r].sid \notin DOMAIN active_sessions
    /\ Raise(r, "KeyError")
    /\ UNCHANGED <<auditVars, writerVars, pipelineVars, otherVars, keyVars>>

\* revoke_session: `if session_id in self._active_sessions`, on an id that
\* is in the table
KRevokeIn(r, session_id) ==
    /\ kpc[r] = "idle"
    /\ session_id \in DOMAIN active_sessions
    /\ kpc' = [kpc EXCEPT ![r] = "revoke_del"]
    /\ klocal' = [klocal EXCEPT ![r] =
                     Locals("revoke_session", session_id, "None", "None", 0,
                            0, <<>>, <<>>)]
    /\ UNCHANGED <<auditVars, writerVars, pipelineVars, otherVars, keyVars, kraised>>

\* revoke_session: session = ...[session_id]; del ...[session_id]; the event
KRevokeDel(r) ==
    /\ kpc[r] = "revoke_del"
    /\ klocal[r].sid \in DOMAIN active_sessions
    /\ active_sessions' = Remove(active_sessions, klocal[r].sid)
    /\ Return(r)
    /\ UNCHANGED <<auditVars, writerVars, pipelineVars, otherVars, keyTable, now, issued,
                   kcall, kraised>>

\* revoke_session: the subscript finds the id gone
KRevokeDelRaises(r) ==
    /\ kpc[r] = "revoke_del"
    /\ klocal[r].sid \notin DOMAIN active_sessions
    /\ Raise(r, "KeyError")
    /\ UNCHANGED <<auditVars, writerVars, pipelineVars, otherVars, keyVars>>

\* cleanup_expired_sessions: the iteration over .items() starts
KCleanupIter(r) ==
    /\ kpc[r] = "idle"
    /\ active_sessions # <<>>
    /\ kpc' = [kpc EXCEPT ![r] = "cleanup_next"]
    /\ klocal' = [klocal EXCEPT ![r] =
                     Locals("cleanup_expired_sessions", 0, "None", "None", 0,
                            Cardinality(DOMAIN active_sessions),
                            InOrder(active_sessions, 1), <<>>)]
    /\ UNCHANGED <<auditVars, writerVars, pipelineVars, otherVars, keyVars, kraised>>

\* cleanup_expired_sessions: the iteration takes the next item and
\* evaluates is_active() on it, or ends
KCleanupNext(r) ==
    /\ kpc[r] = "cleanup_next"
    /\ Cardinality(DOMAIN active_sessions) = klocal[r].size
    /\ IF klocal[r].todo = <<>>
       THEN /\ kpc' = [kpc EXCEPT ![r] = "cleanup_del"]
            /\ UNCHANGED klocal
       ELSE /\ Head(klocal[r].todo) \in DOMAIN active_sessions
            /\ klocal' = [klocal EXCEPT
                  ![r].todo = Tail(klocal[r].todo),
                  ![r].expired =
                      IF IsActive(active_sessions[Head(klocal[r].todo)], now)
                      THEN klocal[r].expired
                      ELSE Append(klocal[r].expired, Head(klocal[r].todo))]
            /\ UNCHANGED kpc
    /\ UNCHANGED <<auditVars, writerVars, pipelineVars, otherVars, keyVars, kraised>>

\* cleanup_expired_sessions: the table changed size under the iteration,
\* or kept its size with other keys: RuntimeError
KCleanupIterRaises(r) ==
    /\ kpc[r] = "cleanup_next"
    /\ \/ Cardinality(DOMAIN active_sessions) # klocal[r].size
       \/ /\ klocal[r].todo # <<>>
          /\ Head(klocal[r].todo) \notin DOMAIN active_sessions
    /\ Raise(r, "RuntimeError")
    /\ UNCHANGED <<auditVars, writerVars, pipelineVars, otherVars, keyVars>>

\* cleanup_expired_sessions: del self._active_sessions[sid] for the next
\* sid of `expired`
KCleanupDel(r) ==
    /\ kpc[r] = "cleanup_del"
    /\ klocal[r].expired # <<>>
    /\ Head(klocal[r].expired) \in DOMAIN active_sessions
    /\ active_sessions' = Remove(active_sessions, Head(klocal[r].expired))
    /\ klocal' = [klocal EXCEPT ![r].expired = Tail(klocal[r].expired)]
    /\ UNCHANGED <<auditVars, writerVars, pipelineVars, otherVars, keyTable, now, issued,
                   kcall, kpc, kraised>>

\* cleanup_expired_sessions: the del finds the id gone
KCleanupDelRaises(r) ==
    /\ kpc[r] = "cleanup_del"
    /\ klocal[r].expired # <<>>
    /\ Head(klocal[r].expired) \notin DOMAIN active_sessions
    /\ Raise(r, "KeyError")
    /\ UNCHANGED <<auditVars, writerVars, pipelineVars, otherVars, keyVars>>

\* cleanup_expired_sessions: the event, return len(expired)
KCleanupReturn(r) ==
    /\ kpc[r] = "cleanup_del"
    /\ klocal[r].expired = <<>>
    /\ Return(r)
    /\ UNCHANGED <<auditVars, writerVars, pipelineVars, otherVars, keyVars, kraised>>

\* create_override_session: validation = self.validate(plaintext_key, scope)
KCreateValidate(r, plaintext_key, scope, duration) ==
    /\ kpc[r] = "idle"
    /\ issued + Cardinality({q \in Requests : kpc[q] = "create_store"})
          < MaxSessions
    /\ Validate(keyTable, plaintext_key, scope, now).valid
    /\ kpc' = [kpc EXCEPT ![r] = "create_store"]
    /\ klocal' = [klocal EXCEPT ![r] =
                     Locals("create_override_session", 0,
                            Validate(keyTable, plaintext_key, scope,
                                     now).key_id,
                            scope, Lifetime(duration), 0, <<>>, <<>>)]
    /\ UNCHANGED <<auditVars, writerVars, pipelineVars, otherVars, keyVars, kraised>>

\* create_override_session: now = datetime.now(), the session, its id,
\* self._active_sessions[session_id] = session, the event, return
KCreateStore(r) ==
    /\ kpc[r] = "create_store"
    /\ active_sessions' =
          (NewSessionId(issued) :>
              OverrideSession(klocal[r].key_id, klocal[r].scope, now,
                              now + klocal[r].expires_at))
          @@ active_sessions
    /\ issued' = issued + 1
    /\ Return(r)
    /\ UNCHANGED <<auditVars, writerVars, pipelineVars, otherVars, keyTable, now, kcall,
                   kraised>>

NextKeyThreads ==
    \/ Tick
    \/ ValidateCall("k_mode", "safety_override")
    \/ \E r \in Requests, sid \in 1..MaxSessions : KCheckGet(r, sid, "*")
    \/ \E r \in Requests : KCheckActive(r)
    \/ \E r \in Requests : KCheckDel(r)
    \/ \E r \in Requests : KCheckDelRaises(r)
    \/ \E r \in Requests, sid \in 1..MaxSessions : KRevokeIn(r, sid)
    \/ \E r \in Requests : KRevokeDel(r)
    \/ \E r \in Requests : KRevokeDelRaises(r)
    \/ \E r \in Requests : KCleanupIter(r)
    \/ \E r \in Requests : KCleanupNext(r)
    \/ \E r \in Requests : KCleanupIterRaises(r)
    \/ \E r \in Requests : KCleanupDel(r)
    \/ \E r \in Requests : KCleanupDelRaises(r)
    \/ \E r \in Requests : KCleanupReturn(r)
    \/ \E r \in Requests, d \in {<<>>, <<4>>} :
          KCreateValidate(r, "k_master", "*", d)
    \/ \E r \in Requests : KCreateStore(r)

SpecKeyThreads == Init /\ [][NextKeyThreads]_vars

\* --------------------------------------------------------- policy: actions
\* Policy(config_path): the constructor loads the file
InitPolicyLoaded ==
    \E file \in PolicyFiles :
        LET r == Load(EmptyConfig, <<>>, file)
        IN /\ pconfig = r.config
           /\ pviolations = r.violations
           /\ pcall = PolicyCall("load", <<file.t>>, [returned |-> r.returned],
                                 ~NoErrors(ValidateObject(r.config, Schema,
                                                          <<>>))
                                   /\ file.t \notin {"missing", "malformed"})

\* the files and dicts a running deployment reloads its policy from
ReloadFiles ==
    {MissingFile, MalformedFile, ValidConfig,
     DictValue("mode" :> DictValue(
                  "allowed" :> ListValue(<<"education", "emergency">>)))}

\* load(config_path)
LoadCall(file) ==
    /\ file.t \in {"missing", "malformed"} =>
          FailedLoads(pviolations) < MaxFailedLoads
    /\ LET r == Load(pconfig, pviolations, file)
       IN /\ pconfig' = r.config
          /\ pviolations' = r.violations
          /\ pcall' = PolicyCall("load", <<file.t>>, [returned |-> r.returned],
                                 IF file.t \in {"missing", "malformed"}
                                 THEN pcall.rejected ELSE ~r.returned)
    /\ UNCHANGED <<auditVars, writerVars, pipelineVars, keyVars,
                   keyThreadVars, configVars, redactVars, storeVars,
                   queryVars, modeVars, raoVars>>

\* load_dict(config)
LoadDictCall(config) ==
    /\ LET r == LoadDict(config)
       IN /\ pconfig' = r.config
          /\ pviolations' = r.violations
          /\ pcall' = PolicyCall("load_dict", <<>>, [returned |-> r.returned],
                                 ~r.returned)
    /\ UNCHANGED <<auditVars, writerVars, pipelineVars, keyVars,
                   keyThreadVars, configVars, redactVars, storeVars,
                   queryVars, modeVars, raoVars>>

\* validate()
PolicyValidateCall ==
    /\ LET r == Validated(pconfig)
       IN /\ pviolations' = r.violations
          /\ pcall' = PolicyCall("validate", <<>>, [returned |-> r.returned],
                                 ~r.returned)
    /\ UNCHANGED <<pconfig, auditVars, writerVars, pipelineVars, keyVars,
                   keyThreadVars, configVars, redactVars, storeVars,
                   queryVars, modeVars, raoVars>>

\* what an evaluator leaves alone: the configuration and everything else
policyFrame == <<pconfig, pviolations, auditVars, writerVars, pipelineVars, keyVars, keyThreadVars, configVars, redactVars, storeVars, queryVars, modeVars, raoVars>>

CanSwitchModeCall(target_mode) ==
    /\ pcall' = PolicyCall("can_switch_mode", <<target_mode>>,
                           CanSwitchMode(pconfig, target_mode), pcall.rejected)
    /\ UNCHANGED policyFrame

CanUseModuleCall(module_name) ==
    /\ pcall' = PolicyCall("can_use_module", <<module_name>>,
                           CanUseModule(pconfig, module_name), pcall.rejected)
    /\ UNCHANGED policyFrame

CanOverrideSafetyCall ==
    /\ pcall' = PolicyCall("can_override_safety", <<>>,
                           CanOverrideSafetyEvaluation(pconfig),
                           pcall.rejected)
    /\ UNCHANGED policyFrame

RequiresAuditorCall ==
    /\ pcall' = PolicyCall("requires_auditor", <<>>,
                           RequiresAuditorValue(pconfig), pcall.rejected)
    /\ UNCHANGED policyFrame

\* the reading levels a profile asks for: none, a level, an unknown word
ProfileLevels == {<<>>, <<"technical">>, <<"wizard">>}

GetReadingLevelCall(profile_level) ==
    /\ pcall' = PolicyCall("get_reading_level", profile_level,
                           GetReadingLevel(pconfig, profile_level),
                           pcall.rejected)
    /\ UNCHANGED policyFrame

NextPolicy ==
    \/ \E file \in ReloadFiles : LoadCall(file)
    \/ \E config \in ReloadFiles \ {MissingFile, MalformedFile} :
          LoadDictCall(config)
    \/ PolicyValidateCall
    \/ \E target_mode \in ModeNames : CanSwitchModeCall(target_mode)
    \/ \E module_name \in {"education", "sensors"} :
          CanUseModuleCall(module_name)
    \/ CanOverrideSafetyCall
    \/ RequiresAuditorCall
    \/ \E profile_level \in ProfileLevels : GetReadingLevelCall(profile_level)

InitPolicy ==
    /\ InitAudit /\ InitWriters /\ PipelineIdle /\ InitKeys
    /\ ConfigDeployed /\ RedactIdle /\ StoreIdle
    /\ QueryIdle /\ ModeIdle /\ RaoIdle
    /\ InitPolicyLoaded

SpecPolicy == InitPolicy /\ [][NextPolicy]_vars

\* ------------------------------------------------------------ mode switch
\* Policy.current_mode: Mode(mode.current), "education" when absent
CurrentMode(config) ==
    LET current == PolicyGet(config, <<"mode", "current">>,
                             StrValue("education"))
    IN IF config.t # "dict" THEN Raised("AttributeError")
       ELSE IF "mode" \in DOMAIN config.entries
               /\ config.entries["mode"].t # "dict"
       THEN Raised("AttributeError")
       ELSE IF current.t = "str" /\ current.s \in ModeNames
       THEN [raised |-> "none", mode |-> current.s]
       ELSE Raised("ValueError")

\* self.policy._config["mode"]["current"] = target_mode
WithCurrent(config, target_mode) ==
    DictValue([config.entries EXCEPT !["mode"] =
                  DictValue(("current" :> StrValue(target_mode))
                            @@ config.entries["mode"].entries)])

\* the dict switch_mode returns, or the exception that leaves it
Refused(error) == [success |-> FALSE, error |-> error]
Switched(target_mode, old_mode) ==
    [success |-> TRUE, mode |-> target_mode, previous_mode |-> old_mode]

\* `if not key`: None or the empty string
NoKey(key) == key = <<>> \/ key[1] = ""

\* ExpertInABox.switch_mode(target_mode, key) on the policy `config` and the
\* key table `table` at time t; `store` tells whether the audit log takes
\* the append. Gives the configuration it leaves, what it returns and the
\* events it hands to the audit log.
SwitchMode(config, table, t, target_mode, key, store) ==
    LET eval_result == CanSwitchMode(config, target_mode)
        validation == Validate(table, key[1], eval_result.key_scope[1].s, t)
        old_mode == CurrentMode(config)
        unchanged(result, events) ==
            [config |-> config, result |-> result, events |-> events]
    IN IF target_mode \notin ModeNames
       THEN unchanged(Refused(<<"Invalid mode", target_mode>>), <<>>)
       ELSE IF eval_result.raised # "none"
       THEN unchanged(eval_result, <<>>)
       ELSE IF ~eval_result.allowed
       THEN unchanged(Refused(eval_result.reason), <<>>)
       ELSE IF Truthy(eval_result.requires_key) /\ NoKey(key)
       THEN unchanged(Refused(<<"Key required for mode switch">>), <<>>)
       ELSE IF Truthy(eval_result.requires_key) /\ ~validation.valid
       THEN unchanged(Refused(validation.error), <<validation.event>>)
       ELSE LET events == IF Truthy(eval_result.requires_key)
                          THEN <<validation.event>> ELSE <<>>
            IN IF old_mode.raised # "none" THEN unchanged(old_mode, events)
               ELSE IF "mode" \notin DOMAIN config.entries
               THEN unchanged(Raised("KeyError"), events)
               ELSE IF store = "refuses"
               THEN [config |-> WithCurrent(config, target_mode),
                     result |-> Raised("OSError"), events |-> events]
               ELSE [config |-> WithCurrent(config, target_mode),
                     result |-> Switched(target_mode, old_mode.mode),
                     events |-> Append(events,
                        KeyEvent("mode_change",
                                 [from |-> old_mode.mode, to |-> target_mode,
                                  key_used |-> eval_result.requires_key]))]

\* the policies of the deployments: the configuration of the tests with one
\* of the mode sections
ModePolicies ==
    {DictValue(m @@ [k \in DOMAIN ValidConfig.entries \ {"mode"} |->
                        ValidConfig.entries[k]]) : m \in ModeEntries}

\* what the console sends as target mode and as key
TargetModes == ModeNames \cup {"party"}
PresentedKeys == {<<>>, <<"">>, <<"k_master">>, <<"k_mode">>, <<"k_old">>, <<"k_wrong">>}

SwitchModeCall(target_mode, key, store) ==
    /\ LET out == SwitchMode(pconfig, keyTable, now, target_mode, key, store)
       IN /\ pconfig' = out.config
          /\ mcall' = [op |-> "switch_mode", target_mode |-> target_mode,
                       key |-> key, result |-> out.result,
                       events |-> out.events]
    /\ UNCHANGED <<pviolations, pcall, auditVars, writerVars, pipelineVars,
                   keyVars, keyThreadVars, configVars, redactVars, storeVars,
                   queryVars, raoVars>>

InitMode ==
    /\ InitAudit /\ InitWriters /\ PipelineIdle /\ InitKeys
    /\ ConfigDeployed /\ RedactIdle /\ StoreIdle
    /\ QueryIdle /\ ModeIdle /\ RaoIdle
    /\ pconfig \in ModePolicies
    /\ pviolations = ValidateObject(pconfig, Schema, <<>>)
    /\ pcall = PolicyCall("load", <<"dict">>,
                          [returned |-> NoErrors(pviolations)],
                          ~NoErrors(pviolations))

NextMode ==
    \/ \E target_mode \in TargetModes, key \in PresentedKeys, store \in {"ok", "refuses"} :
          SwitchModeCall(target_mode, key, store)
    \/ Tick

SpecMode == InitMode /\ [][NextMode]_vars

\* ---------------------------------------------------- pipeline: properties
Reviewed == pstage \in {"resolve", "done"} /\ auditor_output # NoAuditorOutput

Skipped == \E i \in 1..Len(trace) : trace[i].name = "auditor_skipped"

Index(name) ==
    IF \E i \in 1..Len(trace) : trace[i].name = name
    THEN CHOOSE i \in 1..Len(trace) :
            /\ trace[i].name = name
            /\ \A j \in 1..(i - 1) : trace[j].name # name
    ELSE 0

Count(name) == Cardinality({i \in 1..Len(trace) : trace[i].name = name})

\* C5 as stated: whenever the Auditor call raises or its answer is no review
\* (the could-not-parse sentinel, no verdict, an unrecognized verdict), the
\* resolver is handed the conservative fallback (revise, confidence,
\* medium), and the run does not end in send.
C5_FailedReviewIsConservative ==
    (Reviewed /\ review # "none") =>
        /\ auditor_output.verdict = "revise"
        /\ auditor_output.flags = <<"confidence">>
        /\ auditor_output.risk_level = "medium"
        /\ pstage = "done" => decision.action # "send"

\* C6: when the auditor output has the harmful flag or risk level critical,
\* the decision is reject with the fixed refusal text, whatever the verdict.
C6_HarmfulOrCriticalRejected ==
    (pstage = "done" /\ Reviewed
       /\ (Contains(auditor_output.flags, "harmful")
              \/ auditor_output.risk_level = "critical")) =>
        /\ decision.action = "reject"
        /\ decision.response = "I'm not able to help with that request."

C6_Witness ==
    /\ pstage = "done"
    /\ auditor_output.verdict = "approve"
    /\ Contains(auditor_output.flags, "harmful")
    /\ auditor_output.risk_level = "low"
    /\ worker_output.response = "w1"
    /\ decision.action = "reject"

\* C7 as stated: whatever the backend does, run() never raises to its caller.
C7_RunNeverRaises == pstage # "raised"

\* C8: the Auditor is skipped exactly when a policy is configured, its
\* require_auditor is false and the Worker's confidence is strictly above
\* 0.9; a skipped run returns send with the Worker's response and caveats
\* and no override; every other run that returns has invoked the Auditor.
C8_SkipOnlyOnPolicyAndConfidence ==
    pstage \in {"auditor", "resolve", "done"} =>
        /\ Skipped <=>
              /\ policy.configured
              /\ "require_auditor" \in DOMAIN policy.safety
              /\ policy.safety["require_auditor"] = FALSE
              /\ worker_output.confidence > 90
        /\ Skipped =>
              /\ pstage = "done"
              /\ decision.action = "send"
              /\ decision.response = worker_output.response
              /\ decision.caveats = worker_output.caveats
              /\ decision.override_available = FALSE
              /\ Count("auditor.generate_json") = 0
        /\ (~Skipped /\ pstage = "done") =>
              Count("auditor.generate_json") = 1

C8_Witness ==
    /\ pstage = "done"
    /\ Skipped
    /\ worker_output.confidence = 95
    /\ worker_output.caveats = <<"c1">>
    /\ decision.action = "send"

\* C9: in one run the Worker completes before any Auditor invocation, and
\* the decision is produced only after the Auditor has completed or the skip
\* was decided.
C9_WorkerThenAuditorThenResolver ==
    /\ Count("auditor.generate_json") > 0 =>
          /\ Index("worker_complete") > 0
          /\ Index("worker_complete") < Index("auditor.generate_json")
          /\ \A i \in 1..Len(trace) :
                trace[i].name \in {"worker.generate_json", "worker.generate"}
                    => i < Index("auditor.generate_json")
    /\ Count("_resolve") > 0 =>
          /\ Index("auditor_complete") > 0
          /\ Index("auditor_complete") < Index("_resolve")
    /\ decision # NoDecision =>
          /\ Index("worker_complete") > 0
          /\ \/ Index("auditor_complete") > 0 /\ ~Skipped
             \/ Skipped /\ Count("auditor.generate_json") = 0

C9_Witness ==
    /\ pstage = "done"
    /\ Index("worker_complete") > 0
    /\ Index("worker_complete") < Index("auditor.generate_json")
    /\ Index("auditor_complete") < Index("_resolve")
    /\ decision.action = "send_with_caveat"

\* C10: the action _resolve returns is the one of the decision table: reject
\* when the harmful flag is present or risk is critical; otherwise send for
\* approve, send_with_caveat for revise, reject for reject, escalate for
\* escalate.
C10_DecisionTable ==
    (pstage = "done" /\ ~Skipped) =>
        decision.action =
            IF Contains(auditor_output.flags, "harmful")
                 \/ auditor_output.risk_level = "critical"
            THEN "reject"
            ELSE CASE auditor_output.verdict = "approve" -> "send"
                   [] auditor_output.verdict = "revise" -> "send_with_caveat"
                   [] auditor_output.verdict = "reject" -> "reject"
                   [] auditor_output.verdict = "escalate" -> "escalate"

C10_Witness ==
    /\ pstage = "done"
    /\ auditor_output.verdict = "escalate"
    /\ auditor_output.risk_level = "high"
    /\ auditor_output.suggested_revision = "rev1"
    /\ policy.configured
    /\ decision.action = "escalate"

\* the caveats that cite a reasoning text
CitingNotes(reasoning) ==
    CASE reasoning = "r1" ->
           {"Note: r1", "Note: This response may have limitations. r1"}
      [] reasoning = "Auditor error" ->
           {"Note: Auditor error",
            "Note: This response may have limitations. Auditor error"}
      [] OTHER -> {}

\* C11: for verdict revise without harmful flag or critical risk, the
\* response is the Auditor's suggested revision when one is present and
\* non-empty and the Worker's response otherwise; the caveats are the
\* Worker's caveats followed by exactly one caveat citing the Auditor's
\* reasoning.
C11_ReviseResponseAndCaveat ==
    (pstage = "done" /\ ~Skipped /\ auditor_output.verdict = "revise"
       /\ ~Contains(auditor_output.flags, "harmful")
       /\ auditor_output.risk_level # "critical") =>
        /\ decision.response =
              IF auditor_output.suggested_revision \in {"None", ""}
              THEN worker_output.response
              ELSE auditor_output.suggested_revision
        /\ Len(decision.caveats) = Len(worker_output.caveats) + 1
        /\ SubSeq(decision.caveats, 1, Len(worker_output.caveats)) =
              worker_output.caveats
        /\ decision.caveats[Len(decision.caveats)]
              \in CitingNotes(auditor_output.reasoning)

C11_Witness ==
    /\ pstage = "done"
    /\ auditor_output.verdict = "revise"
    /\ auditor_output.risk_level = "high"
    /\ auditor_output.suggested_revision = "rev1"
    /\ worker_output.response = "w1"
    /\ worker_output.caveats = <<"c1">>
    /\ decision.response = "rev1"
    /\ decision.caveats = <<"c1", "Note: r1">>

\* C12: a returned decision has override_available only if its action is
\* reject and the policy is configured with allow_override_on_conflict true;
\* never for send, send_with_caveat or escalate; override_scope is non-null
\* exactly when override_available is true, safety_critical for a harmful /
\* critical rejection and safety_override for a verdict-reject rejection.
C12_OverrideOnlyOnAllowedReject ==
    pstage = "done" =>
        /\ decision.override_available =>
              /\ decision.action = "reject"
              /\ policy.configured
              /\ "allow_override_on_conflict" \in DOMAIN policy.safety
              /\ policy.safety["allow_override_on_conflict"] = TRUE
        /\ decision.action \in {"send", "send_with_caveat", "escalate"} =>
              ~decision.override_available
        /\ decision.override_scope # "None" <=> decision.override_available
        /\ decision.override_available =>
              decision.override_scope =
                  IF Contains(auditor_output.flags, "harmful")
                       \/ auditor_output.risk_level = "critical"
                  THEN "safety_critical"
                  ELSE "safety_override"

C12_Witness ==
    /\ pstage = "done"
    /\ auditor_output.verdict = "reject"
    /\ auditor_output.risk_level = "high"
    /\ ~Contains(auditor_output.flags, "harmful")
    /\ decision.action = "reject"
    /\ decision.override_available
    /\ decision.override_scope = "safety_override"

\* ------------------------------------------------ key registry: properties
SessionMatches(session, scope) == session.scope = scope \/ session.scope = "*"

\* C13: check_session(id, scope) returns true only if a session with that
\* id is in the table, the current time is strictly before its expires_at,
\* and its scope is the requested scope or the wildcard.
C13_CheckSessionSound ==
    /\ (kcall.op = "check_session" /\ kcall.ok) =>
          /\ kcall.sid \in DOMAIN kcall.before
          /\ kcall.at < kcall.before[kcall.sid].expires_at
          /\ SessionMatches(kcall.before[kcall.sid], kcall.scope)
    /\ \A sid \in 0..(MaxSessions + 1), s \in Scopes :
          CheckSession(active_sessions, sid, s, now).ok =>
              /\ sid \in DOMAIN active_sessions
              /\ now < active_sessions[sid].expires_at
              /\ SessionMatches(active_sessions[sid], s)

C13_Witness ==
    /\ kcall.op = "check_session"
    /\ kcall.ok
    /\ kcall.before[kcall.sid].scope = "*"
    /\ kcall.scope = "safety_override"
    /\ kcall.at + 1 = kcall.before[kcall.sid].expires_at

\* C14 as stated: a check_session that directly follows the creation of a
\* session with a 0-second duration, for that session and its scope,
\* returns false and evicts the session.
C14_ZeroDurationInactive ==
    [][(/\ kcall.op = "create_override_session"
        /\ kcall.ok
        /\ kcall.duration = <<0>>
        /\ kcall'.op = "check_session"
        /\ kcall'.sid = kcall.sid
        /\ kcall'.scope = kcall.scope) =>
           /\ ~kcall'.ok
           /\ kcall.sid \notin DOMAIN active_sessions']_vars

\* C15: a session whose expiry has not passed stays in the table unchanged
\* and check_session for its scope returns true, whatever validate,
\* create_override_session, check_session and cleanup_expired_sessions
\* calls are made; a session leaves the table only through revoke_session
\* on its id or, once expired, through check_session on its id or
\* cleanup_expired_sessions.
C15_ActiveSessionStays ==
    /\ [](\A sid \in DOMAIN active_sessions :
            now < active_sessions[sid].expires_at =>
                CheckSession(active_sessions, sid,
                             active_sessions[sid].scope, now).ok)
    /\ []((kcall.op = "check_session"
             /\ kcall.sid \in DOMAIN kcall.before
             /\ kcall.at < kcall.before[kcall.sid].expires_at
             /\ kcall.scope = kcall.before[kcall.sid].scope) =>
               kcall.ok /\ kcall.sid \in DOMAIN active_sessions)
    /\ [][\A sid \in DOMAIN active_sessions :
            IF sid \in DOMAIN active_sessions'
            THEN active_sessions'[sid] = active_sessions[sid]
            ELSE \/ kcall'.op = "revoke_session" /\ kcall'.sid = sid
                 \/ /\ now >= active_sessions[sid].expires_at
                    /\ \/ kcall'.op = "check_session" /\ kcall'.sid = sid
                       \/ kcall'.op = "cleanup_expired_sessions"]_vars

C15_Witness ==
    /\ kcall.op = "cleanup_expired_sessions"
    /\ kcall.count = 1
    /\ \E sid \in DOMAIN active_sessions :
          /\ sid \in DOMAIN kcall.before
          /\ active_sessions[sid].expires_at = active_sessions[sid].granted_at + 4
          /\ active_sessions[sid].granted_at < now

\* the lifetime asked for: the duration, 15 minutes when none is given
Asked(duration) == IF duration = <<>> THEN 1 ELSE duration[1]

\* C16 as stated: create_override_session succeeds exactly when
\* validate(secret, scope) does; on success it returns the session and adds
\* exactly one session under an id that was not in the table, with the
\* requested scope and expires_at = grant time + duration (15 minutes when
\* no duration is given); otherwise it returns an error and leaves the
\* table unchanged.
C16_CreateOverrideSession ==
    kcall.op = "create_override_session" =>
        /\ kcall.ok <=> Validate(keyTable, kcall.secret, kcall.scope,
                                 kcall.at).valid
        /\ kcall.ok =>
              /\ kcall.sid \notin DOMAIN kcall.before
              /\ DOMAIN active_sessions = DOMAIN kcall.before \cup {kcall.sid}
              /\ \A sid \in DOMAIN kcall.before :
                    active_sessions[sid] = kcall.before[sid]
              /\ active_sessions[kcall.sid].scope = kcall.scope
              /\ active_sessions[kcall.sid].granted_at = kcall.at
              /\ active_sessions[kcall.sid].expires_at =
                    kcall.at + Asked(kcall.duration)
              /\ kcall.session = <<active_sessions[kcall.sid]>>
              /\ kcall.error = <<>>
        /\ ~kcall.ok =>
              /\ kcall.session = <<>>
              /\ kcall.error # <<>>
              /\ active_sessions = kcall.before

\* C17: revoke_session on a session in the table removes it and emits
\* override_session_revoked, expired or not, and leaves the other sessions
\* as they are; on an unknown id it returns false, emits nothing and
\* changes nothing; an id that has left the table never returns to it, so
\* check_session on it is false for every scope from then on.
C17_RevokeRemoves ==
    /\ [](kcall.op = "revoke_session" =>
            IF kcall.sid \in DOMAIN kcall.before
            THEN /\ kcall.ok
                 /\ active_sessions = Remove(kcall.before, kcall.sid)
                 /\ kcall.events =
                       <<KeyEvent("override_session_revoked",
                            [session_id |-> kcall.sid,
                             key_id |-> kcall.before[kcall.sid].key_id,
                             scope |-> kcall.before[kcall.sid].scope])>>
            ELSE /\ ~kcall.ok
                 /\ kcall.events = <<>>
                 /\ active_sessions = kcall.before)
    /\ [](\A sid \in 1..issued, s \in Scopes :
            sid \notin DOMAIN active_sessions =>
                ~CheckSession(active_sessions, sid, s, now).ok)
    /\ [][\A sid \in 1..issued :
            sid \notin DOMAIN active_sessions =>
                sid \notin DOMAIN active_sessions']_vars

C17_Witness ==
    /\ kcall.op = "revoke_session"
    /\ kcall.ok
    /\ kcall.at >= kcall.before[kcall.sid].expires_at
    /\ active_sessions # <<>>

\* C18 as stated: cleanup_expired_sessions removes every expired session
\* and no other, returns the number removed and emits an audit event
\* carrying that number.
C18_AsStated ==
    kcall.op = "cleanup_expired_sessions" =>
        /\ DOMAIN active_sessions =
              {sid \in DOMAIN kcall.before :
                  kcall.at < kcall.before[sid].expires_at}
        /\ \A sid \in DOMAIN active_sessions :
              active_sessions[sid] = kcall.before[sid]
        /\ kcall.count =
              Cardinality(DOMAIN kcall.before \ DOMAIN active_sessions)
        /\ kcall.events =
              <<KeyEvent("sessions_cleanup", [count |-> kcall.count])>>

\* C18 amended: cleanup_expired_sessions removes every expired session and
\* no other, leaves the active ones unchanged and returns the number
\* removed; it emits one sessions_cleanup event carrying that number when
\* the number is positive and no event when it is zero.
C18_CleanupSweeps ==
    kcall.op = "cleanup_expired_sessions" =>
        /\ DOMAIN active_sessions =
              {sid \in DOMAIN kcall.before :
                  kcall.at < kcall.before[sid].expires_at}
        /\ \A sid \in DOMAIN active_sessions :
              active_sessions[sid] = kcall.before[sid]
        /\ kcall.count =
              Cardinality(DOMAIN kcall.before \ DOMAIN active_sessions)
        /\ kcall.events =
              IF kcall.count > 0
              THEN <<KeyEvent("sessions_cleanup", [count |-> kcall.count])>>
              ELSE <<>>

C18_Witness ==
    /\ kcall.op = "cleanup_expired_sessions"
    /\ kcall.count = 1
    /\ Cardinality(DOMAIN kcall.before) = 2
    /\ Cardinality(DOMAIN active_sessions) = 1

\* the registered entry a secret matches
Matching(secret) ==
    CASE secret = "k_master" -> keyTable[1]
      [] secret = "k_mode" -> keyTable[2]
      [] secret = "k_old" -> keyTable[3]

\* C20: for a secret that matches a registered key that has not expired,
\* validate(secret, s) succeeds exactly when s is in the key's scope list
\* or the list contains the wildcard: the mode_control key succeeds for
\* mode_control and fails for safety_override, the wildcard key succeeds
\* for every scope, and a secret matching no key fails for every scope.
C20_ValidateScopes ==
    kcall.op = "validate" =>
        /\ (kcall.secret # "k_wrong"
              /\ (Matching(kcall.secret).expires_at = <<>>
                    \/ kcall.at <= Matching(kcall.secret).expires_at[1])) =>
               (kcall.ok <=>
                   \E i \in 1..Len(Matching(kcall.secret).scopes) :
                       Matching(kcall.secret).scopes[i] \in {kcall.scope, "*"})
        /\ kcall.secret = "k_mode" =>
               /\ kcall.scope = "mode_control" => kcall.ok
               /\ kcall.scope = "safety_override" => ~kcall.ok
        /\ kcall.secret = "k_master" => kcall.ok
        /\ kcall.secret = "k_wrong" => ~kcall.ok

C20_Witness ==
    /\ kcall.op = "validate"
    /\ kcall.secret = "k_master"
    /\ kcall.scope = "safety_override"
    /\ kcall.ok
    /\ now = 1

\* the key a secret matches has passed its expiry at the time of the call
ExpiredAt(secret, t) ==
    /\ Matching(secret).expires_at # <<>>
    /\ t > Matching(secret).expires_at[1]

ReasonOf(error) ==
    CASE error = <<"Key has expired">> -> "expired"
      [] error = <<"Invalid key">> -> "no_match"
      [] OTHER -> "insufficient_scope"

\* C23: every validate call emits exactly one audit event:
\* key_validation_success exactly when the result is valid, otherwise
\* key_validation_failed whose reason (expired, insufficient_scope or
\* no_match) is the one the returned error states.
C23_OneEventPerValidate ==
    kcall.op = "validate" =>
        /\ Len(kcall.events) = 1
        /\ kcall.validation.valid
              <=> kcall.events[1].name = "key_validation_success"
        /\ ~kcall.validation.valid =>
               /\ kcall.events[1].name = "key_validation_failed"
               /\ kcall.validation.error
                     \in {<<"Key has expired">>, <<"Invalid key">>,
                          <<"Key does not have scope: ", kcall.scope>>}
               /\ kcall.events[1].details.reason
                     = ReasonOf(kcall.validation.error)

\* a validation that fails for want of the scope
C23_Witness ==
    /\ kcall.op = "validate"
    /\ kcall.secret = "k_mode"
    /\ kcall.scope = "safety_override"
    /\ kcall.events[1].name = "key_validation_failed"
    /\ kcall.events[1].details.reason = "insufficient_scope"

\* the last call was denied: a failed validate or create_override_session,
\* or a check_session on a session that has expired or on an unknown id
Denied ==
    \/ kcall.op \in {"validate", "create_override_session"} /\ ~kcall.ok
    \/ /\ kcall.op = "check_session"
       /\ \/ kcall.sid \notin DOMAIN kcall.before
          \/ kcall.at >= kcall.before[kcall.sid].expires_at

\* C24 as stated: every authorization denial (invalid key, insufficient
\* scope, expired key, check_session on an expired session or on an unknown
\* session id) is a negative result and emits an audit event.
C24_DenialsAudited == Denied => (~kcall.ok /\ Len(kcall.events) >= 1)

\* C22: for a secret that matches no registered key, the result of validate
\* (not valid, error "Invalid key", no key id, no scopes) and the audit
\* event it emits depend on the requested scope alone: they are the same
\* for every registry that lacks the secret.
C22_NoMatchIsGeneric ==
    (kcall.op = "validate"
       /\ \A i \in 1..Len(keyTable) :
              keyTable[i].hash # HashKey(kcall.secret)) =>
        /\ kcall.validation
              = [valid |-> FALSE, key_id |-> "None", scopes |-> <<>>,
                 error |-> <<"Invalid key">>]
        /\ kcall.events
              = <<[name |-> "key_validation_failed",
                   details |-> [reason |-> "no_match",
                                required_scope |-> kcall.scope]]>>

\* a secret that other registries know is tried on one that lacks it
C22_Witness ==
    /\ kcall.op = "validate"
    /\ kcall.secret = "k_mode"
    /\ keyConfig = DefaultKeys
    /\ ~kcall.validation.valid
    /\ now = 1

\* the text fields of an audit event of the registry
TextFields == {"key_id", "reason", "required_scope", "scope"}

\* C25 as stated: neither the key table, nor the key configuration it is
\* loaded from, nor an audit event holds a plaintext secret, and the hash
\* of a secret differs from the secret.
C25_NoPlaintextStored ==
    /\ \A k \in Secrets : HashKey(k) # k
    /\ \A i \in 1..Len(keyTable) :
          keyTable[i].hash \notin Secrets /\ keyTable[i].id \notin Secrets
    /\ \A i \in 1..Len(keyConfig.keys) :
          keyConfig.keys[i]["hash"] \notin Secrets
    /\ \A f \in DOMAIN keyConfig \ {"keys"} : keyConfig[f] \notin Secrets
    /\ kcall.op = "validate" =>
          \A i \in 1..Len(kcall.events) :
              \A f \in DOMAIN kcall.events[i].details \cap TextFields :
                  kcall.events[i].details[f] \notin Secrets

\* C19 as stated: under any interleaving of concurrent registry calls no
\* call raises, the session table holds only sessions that were issued and
\* not yet removed, and no session is removed twice.
C19_ConcurrentCallsSafe ==
    /\ kraised = "none"
    /\ DOMAIN active_sessions \subseteq 1..issued

\* ------------------------------------------------------- audit: properties
Record(i) == JsonLoads(logFile[i])

PreviousOf(i) == IF i = 1 THEN Genesis ELSE Record(i - 1).checksum

\* C1: an unedited log written by log() verifies: verify_integrity() is
\* (true, no issues), every record's previous_checksum is the preceding
\* record's checksum (genesis for the first) and its stored checksum is the
\* checksum recomputed from the record.
C1_ChainIntegrity ==
    altered = NoEdit =>
        /\ VerifyIntegrity(logFile).valid
        /\ VerifyIntegrity(logFile).issues = <<>>
        /\ verifyResult.called =>
               verifyResult.valid /\ verifyResult.issues = <<>>
        /\ \A i \in 1..Len(logFile) :
               /\ Record(i).previous_checksum = PreviousOf(i)
               /\ Record(i).checksum =
                      ComputeChecksum(WithoutChecksum(Record(i)),
                                      Record(i).previous_checksum)

C1_Witness ==
    /\ altered = NoEdit
    /\ Len(logFile) >= 2
    /\ verifyResult.called
    /\ verifyResult.lines = Len(logFile)
    /\ verifyResult.valid

HasIssue(result, line_number, kind) ==
    \E i \in 1..Len(result.issues) :
        result.issues[i] = Issue(line_number, kind)

C3_RestartContinuity ==
    altered = NoEdit =>
        /\ lastChecksum = (IF Len(logFile) = 0 THEN Genesis
                           ELSE Record(Len(logFile)).checksum)
        /\ (eventCount >= 1 /\ Len(logFile) > eventCount) =>
               Record(Len(logFile) - eventCount + 1).previous_checksum =
                   Record(Len(logFile) - eventCount).checksum
        /\ verifyResult.called => verifyResult.valid

C3_Witness ==
    /\ altered = NoEdit
    /\ eventCount >= 1
    /\ Len(logFile) > eventCount
    /\ verifyResult.called
    /\ verifyResult.lines = Len(logFile)
    /\ verifyResult.valid

\* C4: the steps of concurrent log() calls never interleave: at most one
\* call is inside the critical section, the log gains exactly one record
\* per call, no two records carry the same previous_checksum, and the log
\* verifies.
C4_SerializedAppends ==
    /\ Cardinality(InFlight) <= 1
    /\ Len(logFile) =
          calls + Cardinality({t \in Threads : tpc[t] = "advance"})
    /\ \A i, j \in 1..Len(logFile) :
          i # j => Record(i).previous_checksum # Record(j).previous_checksum
    /\ VerifyIntegrity(logFile).valid
    /\ verifyResult.called => verifyResult.valid

C4_Witness ==
    /\ calls >= 2
    /\ Len(logFile) = calls
    /\ \E i, j \in 1..Len(logFile) :
          Record(i).session_id # Record(j).session_id
    /\ verifyResult.called
    /\ verifyResult.lines = Len(logFile)

\* C26 as stated: whenever records were removed from the file (at the start,
\* in the middle or at the end), a record was inserted or two records were
\* exchanged, verify_integrity() returns invalid with at least one
\* line-numbered issue.
C26_StructuralEditDetected ==
    (verifyResult.called
       /\ altered.field \in {"removed", "inserted", "swapped"}) =>
        /\ ~verifyResult.valid
        /\ \E n \in 1..Len(verifyResult.issues) :
              verifyResult.issues[n].line \in 1..verifyResult.lines

\* line k of the file is not a record that follows line k - 1
Offending(file, k) ==
    \/ Len(file[k]) # 7
    \/ JsonLoads(file[k]).checksum
         # ComputeChecksum(WithoutChecksum(JsonLoads(file[k])),
                           JsonLoads(file[k]).previous_checksum)
    \/ k = 1 /\ JsonLoads(file[k]).previous_checksum # Genesis

\* C27 as stated: verify_integrity() never raises, whatever the lines hold
\* (text that is not JSON, JSON that is not a record, a record without
\* checksum); it reports an issue for every such line, and the issues come
\* in increasing line order.
C27_EveryLineProcessed ==
    verifyResult.called =>
        /\ verifyResult.raised = "none"
        /\ \A k \in 1..Len(logFile) :
              Offending(logFile, k) =>
                  \E n \in 1..Len(verifyResult.issues) :
                      verifyResult.issues[n].line = k
        /\ \A m, n \in 1..Len(verifyResult.issues) :
              m < n => verifyResult.issues[m].line <= verifyResult.issues[n].line
\* C28 as stated: under level strict every string-valued query, response or
\* message field is replaced by {redacted: true, hash, length} whose length
\* is the length of the field the caller gave.
C28_StrictKeepsOriginalLength ==
    (redacted.called /\ redaction_level = "strict") =>
        \A f \in DOMAIN redacted.given \cap SensitiveFields :
            redacted.given[f].kind = "str" =>
                /\ redacted.returned[f].kind = "redacted"
                /\ redacted.returned[f].redacted
                /\ redacted.returned[f].length = redacted.given[f].shown

\* C29: under level standard a query, response or message string of more
\* than 500 characters is stored as its first 500 characters followed by
\* the marker, a shorter one and every other field unchanged; under level
\* none every field is stored unchanged; the caller's mapping is the same
\* after the call as before it, whatever the level.
C29_StandardTruncatesNonePasses ==
    redacted.called =>
        /\ caller_details = redacted.given
        /\ DOMAIN redacted.returned = DOMAIN redacted.given
        /\ redaction_level = "none" => redacted.returned = redacted.given
        /\ redaction_level = "standard" =>
              \A f \in DOMAIN redacted.given :
                  IF /\ f \in SensitiveFields
                     /\ redacted.given[f].kind = "str"
                     /\ redacted.given[f].shown > 500
                  THEN redacted.returned[f]
                         = [kind |-> "str", shown |-> 500, marker |-> TRUE]
                  ELSE redacted.returned[f] = redacted.given[f]

\* a long response, a query of exactly 500 characters and a long field
\* that is not sensitive, under level standard
C29_Witness ==
    /\ redacted.called
    /\ redaction_level = "standard"
    /\ DOMAIN redacted.given = {"query", "response", "tokens"}
    /\ redacted.given["response"] = Text(600)
    /\ redacted.given["query"] = Text(500)
    /\ redacted.given["tokens"] = Text(600)
    /\ redacted.returned["response"].marker
    /\ ~redacted.returned["query"].marker
\* C30: when the append fails, log() raises to its caller, also when it was
\* reached through an audit callback, and neither the chain head nor the
\* event count nor the file changes; the head is at all times the checksum
\* of the last record on disk, so the next append chains to that record and
\* the file verifies.
C30_WriteFailureSurfaces ==
    /\ [](/\ lastChecksum = LoadLastChecksum(logFile)
          /\ VerifyIntegrity(logFile).valid)
    /\ [][lcall' # lcall =>
             /\ lcall'.result = "raised"
             /\ UNCHANGED <<logFile, lastChecksum, eventCount>>]_vars

\* an append through the callback failed on a log of one record or more,
\* and a later append went through
C30_Witness ==
    /\ lcall.result = "raised"
    /\ lcall.via = "callback"
    /\ lcall.lines >= 1
    /\ Len(logFile) > lcall.lines
    /\ eventCount = Len(logFile)

\* ------------------------------------------------------ policy: properties
\* the violations on the list whose message is `message`
ViolationsWith(message) ==
    {i \in 1..Len(pviolations) : pviolations[i].message = message}

\* the list is as a validation pass left it: no failed file load since
AsValidated == FailedLoads(pviolations) = 0

Evaluators ==
    {"can_switch_mode", "can_use_module", "can_override_safety",
     "requires_auditor"}

\* C33 as stated: once load or load_dict has rejected the configuration in
\* place, can_switch_mode, can_use_module, can_override_safety and
\* requires_auditor return no decision computed from it.
C33_RejectedNeverServed ==
    (pcall.op \in Evaluators /\ pcall.rejected) => pcall.result.raised # "none"

\* C34 as stated: on a configuration that passed validation,
\* can_switch_mode(target) returns allowed = false with a reason when target
\* is not in mode.allowed, and otherwise allowed = true with requires_key =
\* mode.switch_requires_key (true when absent) and key_scope =
\* mode.switch_key_scope ('mode_control' when absent) when a key is required,
\* no scope when not.
C34_FailsClosedOrAllows ==
    (pcall.op = "can_switch_mode" /\ ~pcall.rejected) =>
        LET listed == PolicyGet(pconfig, <<"mode", "allowed">>,
                                ListValue(<<"education">>)).items
            requires_key == PolicyGet(pconfig, <<"mode", "switch_requires_key">>,
                                      BoolValue(TRUE))
            key_scope == PolicyGet(pconfig, <<"mode", "switch_key_scope">>,
                                   StrValue("mode_control"))
        IN /\ pcall.result.raised = "none"
           /\ IF \E i \in 1..Len(listed) : listed[i] = pcall.argument[1]
              THEN /\ pcall.result.allowed
                   /\ pcall.result.requires_key = requires_key
                   /\ pcall.result.key_scope
                        = IF requires_key.b THEN <<key_scope>> ELSE <<>>
              ELSE /\ ~pcall.result.allowed
                   /\ pcall.result.reason # <<>>

\* C35 as stated: on a configuration that passed validation,
\* get_reading_level returns without an error; it returns the profile's
\* level when the policy allows the override and the level is a known one,
\* output.default_reading_level when the policy disallows the override, and
\* general when the profile's level is an unknown value.
C35_UnknownMapsToGeneral ==
    (pcall.op = "get_reading_level" /\ ~pcall.rejected) =>
        LET override == PolicyGet(pconfig, <<"output", "allow_profile_override">>,
                                  BoolValue(TRUE)).b
            default == PolicyGet(pconfig, <<"output", "default_reading_level">>,
                                 StrValue("general")).s
            profile_level == pcall.argument
        IN /\ pcall.result.raised = "none"
           /\ pcall.result.level
                = IF profile_level = <<>> \/ ~override THEN default
                  ELSE IF profile_level[1] \in ReadingLevels
                  THEN profile_level[1]
                  ELSE "general"

\* C36 as stated: the AuditorOutput the resolver is given has a verdict
\* among approve, revise, reject and escalate, flags among the seven of
\* Flag, and a risk level among low, medium, high and critical.
C36_AuditorOutputWellFormed ==
    Reviewed =>
        /\ auditor_output.verdict \in VerdictValues
        /\ \A i \in 1..Len(auditor_output.flags) :
              auditor_output.flags[i] \in FlagValues
        /\ auditor_output.risk_level \in RiskLevels

\* the audit events of the run, in the order they were emitted
IsEvent(entry) == entry.kind = "event"
Events == SelectSeq(trace, IsEvent)

\* C39: a run that has returned has emitted worker_complete first and then
\* either auditor_skipped and nothing more, or auditor_complete followed by
\* resolver_decision, whose action and override flag are those of the
\* decision returned; while it runs the events so far are a prefix of one
\* of the two sequences.
C39_RunEmitsOneOfTwoSequences ==
    /\ \A i \in 1..Len(Events) :
          Events[i].name =
             IF Skipped THEN <<"worker_complete", "auditor_skipped">>[i]
             ELSE <<"worker_complete", "auditor_complete",
                    "resolver_decision">>[i]
    /\ Len(Events) <= IF Skipped THEN 2 ELSE 3
    /\ pstage = "done" =>
          /\ Len(Events) = IF Skipped THEN 2 ELSE 3
          /\ ~Skipped =>
                /\ Events[3].details.action = decision.action
                /\ Events[3].details.override_available
                     = decision.override_available

\* a reviewed run that returned reject with the override on offer: three
\* events, the last carrying the override flag of the decision
C39_Witness ==
    /\ pstage = "done"
    /\ ~Skipped
    /\ Len(Events) = 3
    /\ decision.action = "reject"
    /\ decision.override_available
    /\ Events[3].details.override_available

\* ------------------------------------------------ mode switch: properties
\* mode.current of a configuration, "education" when absent
ModeOf(config) ==
    PolicyGet(config, <<"mode", "current">>, StrValue("education")).s

\* `mode` is in mode.allowed of the configuration (["education"] when
\* absent)
Listed(config, mode) ==
    LET allowed == PolicyGet(config, <<"mode", "allowed">>,
                             ListValue(<<"education">>))
    IN \E i \in 1..Len(allowed.items) : allowed.items[i] = mode

ModeChanges(events) ==
    Cardinality({i \in 1..Len(events) : events[i].name = "mode_change"})

\* C38: switch_mode changes the current mode only to a target that is in
\* the allow-list and, when the policy asks for a key, only on a key that
\* validates for the scope the policy names; a refused switch (unknown mode
\* name, mode not allowed, no key, invalid key) leaves the configuration as
\* it was and emits no mode_change; a switch that returns success has set
\* the mode to the target and emitted exactly one mode_change, from the old
\* mode to the new; a current mode that is in the allow-list stays in it.
C38_SwitchOnlyWhenAuthorized ==
    [][mcall' # mcall =>
         LET target == mcall'.target_mode
             key == mcall'.key
             result == mcall'.result
             required == PolicyGet(pconfig, <<"mode", "switch_requires_key">>,
                                   BoolValue(TRUE)).b
             scope == PolicyGet(pconfig, <<"mode", "switch_key_scope">>,
                                StrValue("mode_control")).s
             authorized ==
                 /\ Listed(pconfig, target)
                 /\ required =>
                       /\ key # <<>>
                       /\ key[1] # ""
                       /\ Validate(keyTable, key[1], scope, now).valid
             returned == "success" \in DOMAIN result
         IN /\ ModeOf(pconfig') # ModeOf(pconfig) =>
                  authorized /\ ModeOf(pconfig') = target
            /\ ~authorized =>
                  /\ pconfig' = pconfig
                  /\ ModeChanges(mcall'.events) = 0
                  /\ returned => ~result.success
            /\ returned /\ ~result.success =>
                  /\ pconfig' = pconfig
                  /\ ModeChanges(mcall'.events) = 0
            /\ returned /\ result.success =>
                  /\ authorized
                  /\ ModeOf(pconfig') = target
                  /\ result.previous_mode = ModeOf(pconfig)
                  /\ ModeChanges(mcall'.events) = 1
                  /\ mcall'.events[Len(mcall'.events)].details.to = target
                  /\ mcall'.events[Len(mcall'.events)].details.from
                       = ModeOf(pconfig)
            /\ Listed(pconfig, ModeOf(pconfig)) =>
                  Listed(pconfig', ModeOf(pconfig'))]_vars

\* the mode key took the device from education to emergency: the key was
\* validated, then one mode_change was emitted
C38_Witness ==
    /\ mcall.op = "switch_mode"
    /\ mcall.key = <<"k_mode">>
    /\ mcall.result = Switched("emergency", "education")
    /\ ModeOf(pconfig) = "emergency"
    /\ Len(mcall.events) = 2
    /\ mcall.events[1].name = "key_validation_success"
    /\ mcall.events[2].name = "mode_change"

\* ------------------------------------------------------------------- rao
\* the sequence numbers the issuers put on their bundles
MaxSequence == 2

\* RAOBundle: the fields verify_bundle reads; `expired` is is_expired()
RAOBundle(bundle_id, issuer, sequence_number, signature, expired) ==
    [bundle_id |-> bundle_id, expired |-> expired, issuer |-> issuer,
     sequence_number |-> sequence_number, signature |-> signature]

\* an anti-replay test that lets the last bundle in again (mutant of
\* SequenceSeen)
SequenceBelow(sequence_number, last_seq) == sequence_number < last_seq

\* `if bundle.sequence_number <= last_seq`
SequenceSeen(sequence_number, last_seq) == sequence_number <= last_seq

\* RAOManager.verify_bundle(bundle): (valid, error_message)
VerifyBundle(sequences, issuers, bundle) ==
    LET last_seq == Get(sequences, bundle.issuer, -1)
    IN IF bundle.expired
       THEN [valid |-> FALSE, error |-> <<"Bundle has expired">>]
       ELSE IF SequenceSeen(bundle.sequence_number, last_seq)
       THEN [valid |-> FALSE,
             error |-> <<"Sequence number already seen",
                         bundle.sequence_number, last_seq>>]
       ELSE IF bundle.issuer \notin issuers
       THEN [valid |-> FALSE, error |-> <<"Unknown issuer", bundle.issuer>>]
       ELSE IF bundle.signature = ""
       THEN [valid |-> FALSE, error |-> <<"Missing signature">>]
       ELSE [valid |-> TRUE, error |-> <<>>]

\* RAOResult(success, bundle_id, action_taken, error)
RAOResult(bundle_id, action_taken, error) ==
    [success |-> FALSE, bundle_id |-> bundle_id,
     action_taken |-> action_taken, error |-> error]

\* RAOManager.apply_bundle(bundle): the sequences it leaves, what it
\* returns and the events it hands to the audit callback
ApplyBundle(sequences, issuers, bundle) ==
    LET verified == VerifyBundle(sequences, issuers, bundle)
    IN IF ~verified.valid
       THEN [sequences |-> sequences,
             result |-> RAOResult(bundle.bundle_id, "rejected",
                                  verified.error),
             events |-> <<KeyEvent("rao_bundle_rejected",
                                   [bundle_id |-> bundle.bundle_id,
                                    reason |-> verified.error])>>]
       ELSE [sequences |-> (bundle.issuer :> bundle.sequence_number)
                              @@ sequences,
             result |-> RAOResult(bundle.bundle_id, "not_implemented",
                                  <<"RAO application not yet implemented (stub)">>),
             events |-> <<KeyEvent("rao_bundle_received",
                                   [bundle_id |-> bundle.bundle_id,
                                    status |-> "stub_not_implemented"])>>]

\* the issuers that send bundles: two organisations and a stranger
Issuers == {"org", "field", "rogue"}

\* register_issuer_key(issuer, public_key)
RegisterIssuer(issuer) ==
    /\ issuer_keys' = issuer_keys \cup {issuer}
    /\ UNCHANGED <<last_sequence, rcall, auditVars, writerVars, pipelineVars,
                   keyVars, keyThreadVars, configVars, redactVars, storeVars,
                   queryVars, policyVars, modeVars>>

\* apply_bundle(bundle); the ghost keeps the bundles accepted so far
ApplyBundleCall(bundle_id, issuer, sequence_number, signature, expired) ==
    /\ LET out == ApplyBundle(last_sequence, issuer_keys,
                              RAOBundle(bundle_id, issuer, sequence_number,
                                        signature, expired))
       IN /\ last_sequence' = out.sequences
          /\ rcall' = [op |-> "apply_bundle",
                       bundle |-> RAOBundle(bundle_id, issuer,
                                            sequence_number, signature,
                                            expired),
                       result |-> out.result, events |-> out.events,
                       accepted |->
                          IF out.result.action_taken = "rejected"
                          THEN rcall.accepted
                          ELSE rcall.accepted
                                 \cup {<<issuer, sequence_number>>}]
    /\ UNCHANGED <<issuer_keys, auditVars, writerVars, pipelineVars,
                   keyVars, keyThreadVars, configVars, redactVars, storeVars,
                   queryVars, policyVars, modeVars>>

NextRao ==
    \/ \E issuer \in {"org", "field"} : RegisterIssuer(issuer)
    \/ \E issuer \in Issuers, n \in 0..MaxSequence, signature \in {"", "sig"}, expired \in BOOLEAN :
          ApplyBundleCall("b1", issuer, n, signature, expired)

SpecRao == Init /\ [][NextRao]_vars

\* -------------------------------------------------------- rao: properties
Rejected(call) == call.result.action_taken = "rejected"

\* C40: a bundle is accepted only with a sequence number above every one
\* accepted from its issuer before; the last sequence recorded for an issuer
\* never decreases; a bundle whose number is not above the recorded one is
\* rejected with one rao_bundle_rejected event; a rejected bundle leaves
\* the recorded sequences as they were.
C40_SequenceOnlyAdvances ==
    [][rcall' # rcall =>
         LET bundle == rcall'.bundle
         IN /\ \A issuer \in Issuers :
                  Get(last_sequence', issuer, -1)
                     >= Get(last_sequence, issuer, -1)
            /\ ~Rejected(rcall') =>
                  /\ \A a \in rcall.accepted :
                        a[1] = bundle.issuer => bundle.sequence_number > a[2]
                  /\ last_sequence'[bundle.issuer] = bundle.sequence_number
                  /\ \A issuer \in DOMAIN last_sequence' \ {bundle.issuer} :
                        /\ issuer \in DOMAIN last_sequence
                        /\ last_sequence'[issuer] = last_sequence[issuer]
            /\ (\E a \in rcall.accepted :
                   a[1] = bundle.issuer /\ bundle.sequence_number <= a[2])
                  => Rejected(rcall')
            /\ Rejected(rcall') =>
                  /\ last_sequence' = last_sequence
                  /\ Len(rcall'.events) = 1
                  /\ rcall'.events[1].name = "rao_bundle_rejected"
                  /\ rcall'.events[1].details.bundle_id = bundle.bundle_id]_vars

\* bundle 1 of org was accepted and is presented again, signed and not
\* expired: rejected, the recorded sequence still 1
C40_Witness ==
    /\ rcall.op = "apply_bundle"
    /\ Rejected(rcall)
    /\ rcall.bundle.issuer = "org"
    /\ rcall.bundle.sequence_number = 1
    /\ rcall.bundle.signature = "sig"
    /\ ~rcall.bundle.expired
    /\ <<"org", 1>> \in rcall.accepted
    /\ last_sequence["org"] = 1
    /\ rcall.events[1].name = "rao_bundle_rejected"

\* ---------------------------------------------------- key registry: reload
\* a keys.json whose second entry has no hash, one that is not there and
\* one that is not JSON
PartialKeys ==
    [keys |-> <<KeyData("ops", HashKey("k_mode"), <<"mode_control">>),
                ("id" :> "broken") @@ ("scopes" :> <<"*">>)>>]
MissingKeys == [unreadable |-> "FileNotFoundError"]
MalformedKeys == [unreadable |-> "JSONDecodeError"]

KeyFiles == KeyConfigs \cup {PartialKeys, MissingKeys, MalformedKeys}

\* KeyRegistry.load(config_path) on a registry holding `table`: the table
\* it leaves and the value it returns. The table is emptied before the
\* loop, and key_data["id"] or key_data["hash"] raises KeyError on the
\* first entry that lacks one.
LoadKeyFile(table, file) ==
    IF "unreadable" \in DOMAIN file THEN [table |-> table, returned |-> FALSE]
    ELSE LET incomplete == {i \in 1..Len(file.keys) :
                              ~({"id", "hash"} \subseteq DOMAIN file.keys[i])}
         IN IF incomplete = {}
            THEN [table |-> LoadKeys(file), returned |-> TRUE]
            ELSE LET first == CHOOSE i \in incomplete :
                                 \A j \in incomplete : i <= j
                 IN [table |-> LoadKeys([keys |-> SubSeq(file.keys, 1,
                                                         first - 1)]),
                     returned |-> FALSE]

\* load(config_path) on the running registry
LoadKeysCall(file) ==
    /\ keyTable' = LoadKeyFile(keyTable, file).table
    /\ keyConfig' = file
    /\ kcall' = KeyCall("load", "None", 0, "None", <<>>,
                        Outcome(LoadKeyFile(keyTable, file).returned, <<>>,
                                <<>>, 0, <<>>, <<>>),
                        active_sessions, now)
    /\ UNCHANGED <<active_sessions, now, issued, keyThreadVars, auditVars,
                   writerVars, pipelineVars, redactVars, storeVars,
                   extraVars>>

NextReload ==
    \/ Tick
    \/ \E file \in KeyFiles : LoadKeysCall(file)
    \/ \E k \in {"k_mode", "k_wrong"} : ValidateCall(k, "mode_control")
    \/ CreateCall("k_master", "*", <<>>)
    \/ \E sid \in SessionIds : RevokeCall(sid)
    \/ CleanupCall

SpecReload == Init /\ [][NextReload]_vars

\* C37 as stated: the key table changes only in load, which on success
\* leaves the entries of the new file and on failure (false returned)
\* leaves the table that was loaded before.
C37_TableReplacedWholeOrKept ==
    [][/\ keyTable' # keyTable =>
             /\ kcall'.op = "load"
             /\ kcall'.ok
             /\ keyTable' = LoadKeys(keyConfig')
       /\ (kcall' # kcall /\ kcall'.op = "load" /\ ~kcall'.ok) =>
             keyTable' = keyTable]_vars
====
